---- MODULE Spec2Model ----
(***************************************************************************)
(* Model of the try-again re-ranking heuristic                             *)
(* (src/evaluator/wsd_heuristics.py) and of the evaluation aggregation     *)
(* (src/evaluator/_supervised_base.py).                                    *)
(*                                                                         *)
(* Similarity scores are floats in the source.  Here a score is an integer *)
(* that counts halves (the score 1.0 is the integer 2), so that the mean   *)
(* of the similarities of a synset with two lemma keys is exact; positive  *)
(* infinity is the value Inf, which absorbs every finite addend.           *)
(***************************************************************************)
EXTENDS Integers, Sequences, FiniteSets, TLC

VARIABLES
    self,       \* the re-ranker object: variant and the flags of __init__
    wordnet,    \* the lexical collaborators: relation graph, lexnames, CSI table
    call,       \* arguments of the last try_again_mechanism call
    ret,        \* what that call returned (the caller's lists, mutated in place)
    consulted,  \* the collaborators that call looked up
    raised,     \* the collaborator whose failure propagated out of that call, or "none"
    attempts,   \* how often that call tried the lookup that failed
    dict_try_again_synsets, \* the expansion sets of that call, per candidate sense of W
    wordnet_loaded, \* the collaborators as they were when the re-ranker was built
    metric_call,        \* arguments of a BaseEvaluator.compute_metrics call
    metric_ret,         \* what that call returned
    evaluator,          \* the evaluator object: category and breakdown attributes
    eval_pc,            \* where evaluate() stands: "off", "loop", "done", "raised"
    consumed,           \* the instances evaluate() has taken from the dataset, in order
    dict_dict_results,  \* evaluate()'s groups of metric records
    dict_summary,       \* the summary evaluate() returned
    dataset,            \* a fixed evaluation dataset with the predictor's answers
    returned,           \* what the evaluate() calls on that dataset returned, in order
    ctor,               \* a constructor call: the class and its arguments
    built,              \* how that constructor call ended
    in_use,             \* whether the constructed object has been put to use
    wsd_dataset,        \* a WSDTaskDataset: its flags and the entities of its sentences
    iter_pc,            \* the entity generator: "idle", "running", "exhausted", "raised"
    position,           \* the entity the generator examines next
    yielded,            \* the records the generator has yielded, in order
    warned,             \* the warnings it has emitted, in order
    iter_error          \* the exception that ended it, or "none"

rerank_vars == <<self, wordnet, call, ret, consulted, raised, attempts,
                 dict_try_again_synsets, wordnet_loaded>>
metric_vars == <<metric_call, metric_ret>>
eval_vars == <<evaluator, eval_pc, consumed, dict_dict_results, dict_summary,
              dataset, returned>>
ctor_vars == <<ctor, built, in_use>>
iter_vars == <<wsd_dataset, iter_pc, position, yielded, warned, iter_error>>
aux_vars == <<ctor_vars, iter_vars>>
vars == <<rerank_vars, metric_vars, eval_vars, aux_vars>>

(* ------------------------------------------------------------------ *)
(* Bounds of the model                                                 *)
(* ------------------------------------------------------------------ *)
MaxCand == 3    \* longest candidate list
MaxTopK == 2    \* largest top_k_candidates
MaxLabels == 2      \* longest label collection given to compute_metrics
MaxInstances == 3   \* most instances of an evaluation dataset
MaxDataset == 2     \* most instances of a dataset that is evaluated repeatedly
MaxCalls == 2       \* most evaluate() calls on one evaluator
MaxLines == 2       \* most lines of a Coarse Sense Inventory file
MaxEntities == 3    \* most entities of a WSDTaskDataset
MaxHop == 2         \* largest n_ancestor_hop_of_ground_truth_synset

(* ------------------------------------------------------------------ *)
(* Generic helpers                                                     *)
(* ------------------------------------------------------------------ *)
Min2(a, b) == IF a <= b THEN a ELSE b
Max2(a, b) == IF a >= b THEN a ELSE b
Range(seq) == {seq[i] : i \in 1..Len(seq)}
SetMax(S) == CHOOSE x \in S : \A y \in S : y <= x
Abs(x) == IF x < 0 THEN -x ELSE x

RECURSIVE SeqSum(_)
SeqSum(seq) == IF seq = <<>> THEN 0 ELSE Head(seq) + SeqSum(Tail(seq))

\* Python's seq[:k]
PySliceTo(seq, k) ==
    SubSeq(seq, 1, IF k >= 0 THEN Min2(k, Len(seq)) ELSE Max2(0, Len(seq) + k))

\* Python's list.index(x): the first position holding x
ListIndex(seq, x) == CHOOSE i \in 1..Len(seq) : seq[i] = x /\ \A j \in 1..(i-1) : seq[j] # x

\* float("inf")
Inf == 1000
FloatAdd(a, b) == IF a = Inf \/ b = Inf THEN Inf ELSE a + b

(* ------------------------------------------------------------------ *)
(* The lexical collaborators (an in-memory WordNet)                    *)
(* ------------------------------------------------------------------ *)
CandidateKeys == {"k1", "k2", "k3", "k4"}
CandidateSynsets == {"s1", "s2", "s3"}
Synsets == CandidateSynsets \cup {"r1", "r2"}
Lexnames == {"noun.act", "noun.food"}
CsiLabels == {"ART", "FOOD"}

\* utils_wordnet_gloss.lemma_key_to_synset_id: many lemma keys to one synset
lemma_key_to_synset_id(lemma_key) ==
    CASE lemma_key \in {"k1", "k2"} -> "s1"
      [] lemma_key = "k3" -> "s2"
      [] lemma_key = "k4" -> "s3"
      [] lemma_key = "m1" -> "r1"
      [] OTHER -> "r2"

\* utils_wordnet_gloss.synset_to_lemma_keys: the lemma keys of a synset, in order
synset_to_lemma_keys(synset) ==
    CASE synset = "s1" -> <<"k1", "k2">>
      [] synset = "s2" -> <<"k3">>
      [] synset = "s3" -> <<"k4">>
      [] synset = "r1" -> <<"m1">>
      [] OTHER -> <<"m2", "m3">>

\* SREFLemmaEmbeddingsDataset.get_lemma_key_embeddings: one vector per lemma key
get_lemma_key_embedding(lemma_key) ==
    CASE lemma_key = "k1" -> <<1, 0>>
      [] lemma_key = "k2" -> <<0, 1>>
      [] lemma_key = "k3" -> <<2, 0>>
      [] lemma_key = "k4" -> <<0, -1>>
      [] lemma_key = "m1" -> <<-2, 0>>
      [] lemma_key = "m2" -> <<0, 2>>
      [] OTHER -> <<1, 0>>

\* query vectors of the calls
Queries == {<<1, 0>>}

\* gloss_extend(synset_id, relation): the relation graphs the model is run on
NoRelations == [s \in CandidateSynsets |-> {}]
SparseRelations ==
    [s \in CandidateSynsets |->
        CASE s = "s1" -> {"s1", "r1"} [] s = "s2" -> {"s2", "r1", "r2"} [] OTHER -> {"r2"}]
DenseRelations ==
    [s \in CandidateSynsets |->
        CASE s = "s1" -> {"s2", "r1", "r2"} [] s = "s2" -> {"s1", "r2"} [] OTHER -> {"s3", "r2"}]

\* utils_wordnet_gloss.synset_id_to_lexname
OneLexname == [s \in Synsets |-> "noun.act"]
TwoLexnames == [s \in Synsets |-> IF s \in {"s1", "r1"} THEN "noun.act" ELSE "noun.food"]

\* the WordNets the relation-walk re-ranker is run on
WordNets ==
    { [related |-> NoRelations, lexname |-> OneLexname],
      [related |-> SparseRelations, lexname |-> TwoLexnames],
      [related |-> DenseRelations, lexname |-> OneLexname],
      [related |-> DenseRelations, lexname |-> TwoLexnames] }

\* the loaded Coarse Sense Inventory: synset id -> labels, for the synsets it lists
CsiTables ==
    { [s \in {} |-> <<>>],
      [s \in {"s1", "s2", "r1"} |->
          CASE s = "s1" -> <<"ART">> [] s = "s2" -> <<"ART", "FOOD">> [] OTHER -> <<"FOOD">>],
      [s \in {"s2", "r2"} |-> <<"FOOD">>] }

gloss_extend(wn, synset_id) == wn.related[synset_id]
synset_id_to_lexname(wn, synset_id) == wn.lexname[synset_id]
get_lexname_synsets(wn, lexname) == {s \in Synsets : wn.lexname[s] = lexname}

(* ------------------------------------------------------------------ *)
(* Similarity of the query to the lemma keys of a synset               *)
(* ------------------------------------------------------------------ *)
Dot(u, v) == u[1] * v[1] + u[2] * v[2]
\* the vectors of the model lie on an axis, so their norm is an integer
Norm(u) == Abs(u[1]) + Abs(u[2])

\* lines 130-133, in halves
Similarity(metric, query, embedding) ==
    IF metric = "cosine"
    THEN (2 * Dot(query, embedding)) \div (Norm(query) * Norm(embedding))
    ELSE 2 * Dot(query, embedding)

\* np.mean(v_sim)
Mean(v_sim) == SeqSum(v_sim) \div Len(v_sim)

\* lines 125-138: the similarities one try-again synset adds to lst_try_again_similarities
SynsetSimilarities(me, query, try_again_synset) ==
    LET all_keys == synset_to_lemma_keys(try_again_synset)
        lst_lemma_keys == IF me.lookup_first_lemma_sense_only
                          THEN PySliceTo(all_keys, 1) ELSE all_keys
        v_sim == [i \in 1..Len(lst_lemma_keys) |->
                    Similarity(me.similarity_metric, query,
                               get_lemma_key_embedding(lst_lemma_keys[i]))]
    IN  IF me.average_similarity_in_synset THEN {Mean(v_sim)} ELSE Range(v_sim)

(* ------------------------------------------------------------------ *)
(* try_again_mechanism, shared skeleton                                *)
(* ------------------------------------------------------------------ *)
Zip(keys, sims) == [i \in 1..Len(keys) |-> <<keys[i], sims[i]>>]

\* insertion of one pair into a list sorted by descending score; a pair goes
\* behind the pairs of equal score (sorted(..., reverse=True) is stable)
RECURSIVE InsertDesc(_, _)
InsertDesc(sorted, pair) ==
    IF sorted = <<>> THEN <<pair>>
    ELSE IF Head(sorted)[2] >= pair[2]
         THEN <<Head(sorted)>> \o InsertDesc(Tail(sorted), pair)
         ELSE <<pair>> \o sorted

RECURSIVE SortedDesc(_)
SortedDesc(pairs) ==
    IF pairs = <<>> THEN <<>>
    ELSE InsertDesc(SortedDesc(SubSeq(pairs, 1, Len(pairs) - 1)), pairs[Len(pairs)])

ReverseSeq(seq) == [i \in 1..Len(seq) |-> seq[Len(seq) + 1 - i]]

\* a top-k that puts the later of two pairs of equal score first
TopKTiesReversed(keys, sims, top_k) ==
    PySliceTo(SortedDesc(ReverseSeq(Zip(keys, sims))), top_k)

\* line 78 / 229: lst_tup_lemma_key_and_similarity_top_k
TopK(keys, sims, top_k) == PySliceTo(SortedDesc(Zip(keys, sims)), top_k)

\* lines 84-87: the keys of dict_candidate_synset_similarities, in insertion order
RECURSIVE DictKeys(_)
DictKeys(pairs) ==
    IF pairs = <<>> THEN <<>>
    ELSE LET before == DictKeys(SubSeq(pairs, 1, Len(pairs) - 1))
             synset_id == lemma_key_to_synset_id(pairs[Len(pairs)][1])
         IN  IF synset_id \in Range(before) THEN before ELSE Append(before, synset_id)

\* the maximum taken over the similarities and 0.0
MaxOrZeroFloor(lst_try_again_similarities) ==
    SetMax(lst_try_again_similarities \cup {0})

\* line 140 / 267
MaxOrZero(lst_try_again_similarities) ==
    IF lst_try_again_similarities # {} THEN SetMax(lst_try_again_similarities) ELSE 0

\* Summand with the original similarity dropped from the sum
RECURSIVE SummandTryAgainOnly(_, _, _, _)
SummandTryAgainOnly(keys, sims, topk, try_again) ==
    IF topk = <<>> THEN sims
    ELSE LET lemma_key == Head(topk)[1]
             idx == ListIndex(keys, lemma_key)
             synset_id == lemma_key_to_synset_id(lemma_key)
         IN  SummandTryAgainOnly(keys, [sims EXCEPT ![idx] = try_again[synset_id]],
                                 Tail(topk), try_again)

\* Summand writing at the rank in the top-k list instead of at the key's own index
RECURSIVE SummandAtRank(_, _, _, _)
SummandAtRank(keys, sims, topk, try_again) ==
    IF topk = <<>> THEN sims
    ELSE LET lemma_key == topk[Len(topk)][1]
             original_similarity == topk[Len(topk)][2]
             idx == Len(topk)
             synset_id == lemma_key_to_synset_id(lemma_key)
         IN  SummandAtRank(keys,
                           [sims EXCEPT ![idx] = FloatAdd(original_similarity, try_again[synset_id])],
                           SubSeq(topk, 1, Len(topk) - 1), try_again)

\* lines 144-148 / 271-275: write original + try-again similarity back, in W's order
RECURSIVE Summand(_, _, _, _)
Summand(keys, sims, topk, try_again) ==
    IF topk = <<>> THEN sims
    ELSE LET lemma_key == Head(topk)[1]
             original_similarity == Head(topk)[2]
             idx == ListIndex(keys, lemma_key)
             synset_id == lemma_key_to_synset_id(lemma_key)
         IN  Summand(keys,
                     [sims EXCEPT ![idx] = FloatAdd(original_similarity, try_again[synset_id])],
                     Tail(topk), try_again)

(* ------------------------------------------------------------------ *)
(* TryAgainMechanism (relation walk)                                   *)
(* ------------------------------------------------------------------ *)
\* the degenerate return taken whatever the flag says
IsDegenerateWhateverFlag(me, topk) == Len(DictKeys(topk)) = 1

\* line 89-90
IsDegenerate(me, topk) ==
    Len(DictKeys(topk)) = 1 /\ me.do_not_fix_synset_degeneration_bug

\* BoostLeastSimilar taking the first (most similar) pair of the top-k list
BoostMostSimilar(keys, sims, topk) ==
    LET most_similar_lemma_index == ListIndex(keys, topk[1][1])
    IN  [sims EXCEPT ![most_similar_lemma_index] = FloatAdd(@, Inf)]

\* BoostLeastSimilar adding 1.0 instead of infinity
BoostLeastSimilarByOne(keys, sims, topk) ==
    LET least_similar_lemma_index == ListIndex(keys, topk[Len(topk)][1])
    IN  [sims EXCEPT ![least_similar_lemma_index] = FloatAdd(@, 2)]

\* lines 93-96
BoostLeastSimilar(keys, sims, topk) ==
    LET least_similar_lemma == topk[Len(topk)][1]
        least_similar_lemma_index == ListIndex(keys, least_similar_lemma)
    IN  [sims EXCEPT ![least_similar_lemma_index] = FloatAdd(@, Inf)]

\* the union of the relation sets, without the intersection
CommonExtendedSynsetsUnion(wn, cands) == UNION {gloss_extend(wn, s) : s \in cands}

\* line 105
CommonExtendedSynsets(wn, cands) ==
    LET union == UNION {gloss_extend(wn, s) : s \in cands}
    IN  {x \in union : \A s \in cands : x \in gloss_extend(wn, s)}

\* line 109
IsDifferentLexname(wn, cands) ==
    Cardinality({synset_id_to_lexname(wn, s) : s \in cands}) > 1

\* lines 103-107: what is taken out of every dict_try_again_synsets[...]
Subtracted(me, wn, cands) ==
    IF me.exclude_common_semantically_related_synsets /\ Cardinality(cands) > 1
    THEN CommonExtendedSynsets(wn, cands)
    ELSE {}

\* the relation set left as gloss_extend gave it
AfterSubtractionSkipped(me, wn, cands, candidate_synset_id) ==
    gloss_extend(wn, candidate_synset_id)

\* lines 99-107: dict_try_again_synsets[candidate_synset_id] before line 109
AfterSubtraction(me, wn, cands, candidate_synset_id) ==
    gloss_extend(wn, candidate_synset_id) \ Subtracted(me, wn, cands)

\* lines 112-114: the synsets of the candidate's lexname, when the lexnames differ
LexnameExtension(wn, cands, candidate_synset_id) ==
    IF IsDifferentLexname(wn, cands)
    THEN get_lexname_synsets(wn, synset_id_to_lexname(wn, candidate_synset_id))
    ELSE {}

\* the lexname union made before the common synsets are subtracted
TryAgainSynsetsUnionFirst(me, wn, cands, candidate_synset_id) ==
    (gloss_extend(wn, candidate_synset_id)
        \cup LexnameExtension(wn, cands, candidate_synset_id)) \ Subtracted(me, wn, cands)

\* lines 99-114: dict_try_again_synsets[candidate_synset_id] when the similarities are taken
TryAgainSynsets(me, wn, cands, candidate_synset_id) ==
    AfterSubtraction(me, wn, cands, candidate_synset_id)
        \cup LexnameExtension(wn, cands, candidate_synset_id)

\* the skip applied to nouns only
ContributingNounOnly(me, pos, cands, try_again_synsets) ==
    {r \in try_again_synsets :
        ~(me.exclude_oneselves_for_noun_and_verb /\ r \in cands /\ pos = "n")}

\* lines 118-122: the try-again synsets that are not skipped
Contributing(me, pos, cands, try_again_synsets) ==
    {r \in try_again_synsets :
        ~(me.exclude_oneselves_for_noun_and_verb /\ r \in cands /\ pos \in {"n", "v"})}

\* lines 116-141
TryAgainSimilarity(me, wn, query, pos, cands, candidate_synset_id) ==
    LET used == Contributing(me, pos, cands,
                             TryAgainSynsets(me, wn, cands, candidate_synset_id))
    IN  MaxOrZero(UNION {SynsetSimilarities(me, query, r) : r \in used})

\* what a call holds per candidate sense of W while it runs: the relation set of
\* line 100, the set after line 107, the set after line 114, the synsets the
\* loop of 118-138 does not skip, lst_try_again_similarities and line 140's value
Expansion(related, after_subtraction, try_again_synsets, used, similarities) ==
    [related |-> related, after_subtraction |-> after_subtraction,
     try_again_synsets |-> try_again_synsets, used |-> used,
     lst_try_again_similarities |-> similarities,
     try_again_similarity |-> MaxOrZero(similarities)]

ExpansionsRelation(me, wn, c) ==
    LET topk == TopK(c.keys, c.sims, c.top_k)
        cands == Range(DictKeys(topk))
    IN  IF Len(c.keys) = 1 \/ IsDegenerate(me, topk) THEN <<>>
        ELSE [s \in cands |->
                LET synsets == TryAgainSynsets(me, wn, cands, s)
                    used == Contributing(me, c.pos, cands, synsets)
                IN  Expansion(gloss_extend(wn, s), AfterSubtraction(me, wn, cands, s),
                              synsets, used,
                              UNION {SynsetSimilarities(me, c.query, r) : r \in used})]

\* the relation sets written through to the collaborator's own sets
AfterRelationWalkAliased(wn, expansions) ==
    [wn EXCEPT !.related =
        [s \in DOMAIN @ |-> IF s \in DOMAIN expansions
                            THEN expansions[s].after_subtraction ELSE @[s]]]

\* line 100 copies the collaborator's answer with set(...); lines 107 and 114
\* update the copy, so the collaborators are after the call what they were
AfterRelationWalk(wn, expansions) == wn

\* the collaborators a relation-walk call looks up
ConsultedRelation(me, wn, c) ==
    LET topk == TopK(c.keys, c.sims, c.top_k)
        cands == Range(DictKeys(topk))
    IN  IF Len(c.keys) = 1 THEN {}
        ELSE IF topk = <<>> THEN {}
        ELSE IF IsDegenerate(me, topk) THEN {"lemma_key_to_synset_id"}
        ELSE {"lemma_key_to_synset_id", "gloss_extend", "synset_id_to_lexname"}
             \cup (IF IsDifferentLexname(wn, cands) THEN {"get_lexname_synsets"} ELSE {})
             \cup (IF \E s \in cands :
                        Contributing(me, c.pos, cands, TryAgainSynsets(me, wn, cands, s)) # {}
                   THEN {"synset_to_lemma_keys", "get_lemma_key_embeddings"} ELSE {})

\* try_again_mechanism without the single-candidate return of lines 74-75
TryAgainMechanismNoShortcut(me, wn, c) ==
    LET topk == TopK(c.keys, c.sims, c.top_k)
        cands == Range(DictKeys(topk))
        try_again == [s \in cands |-> TryAgainSimilarity(me, wn, c.query, c.pos, cands, s)]
    IN  IF IsDegenerate(me, topk)
        THEN [keys |-> c.keys, sims |-> BoostLeastSimilar(c.keys, c.sims, topk)]
        ELSE [keys |-> c.keys, sims |-> Summand(c.keys, c.sims, topk, try_again)]

\* try_again_mechanism returning the candidates re-sorted by adjusted score
TryAgainMechanismResorted(me, wn, c) ==
    LET topk == TopK(c.keys, c.sims, c.top_k)
        cands == Range(DictKeys(topk))
        try_again == [s \in cands |-> TryAgainSimilarity(me, wn, c.query, c.pos, cands, s)]
        sims == IF Len(c.keys) = 1 THEN c.sims
                ELSE IF IsDegenerate(me, topk) THEN BoostLeastSimilar(c.keys, c.sims, topk)
                ELSE Summand(c.keys, c.sims, topk, try_again)
        sorted == SortedDesc(Zip(c.keys, sims))
    IN  [keys |-> [i \in 1..Len(sorted) |-> sorted[i][1]],
         sims |-> [i \in 1..Len(sorted) |-> sorted[i][2]]]

\* lines 62-150: try_again_mechanism returns the caller's two lists
TryAgainMechanism(me, wn, c) ==
    LET topk == TopK(c.keys, c.sims, c.top_k)
        cands == Range(DictKeys(topk))
        try_again == [s \in cands |-> TryAgainSimilarity(me, wn, c.query, c.pos, cands, s)]
    IN  IF Len(c.keys) = 1 THEN [keys |-> c.keys, sims |-> c.sims]
        ELSE IF IsDegenerate(me, topk)
             THEN [keys |-> c.keys, sims |-> BoostLeastSimilar(c.keys, c.sims, topk)]
             ELSE [keys |-> c.keys, sims |-> Summand(c.keys, c.sims, topk, try_again)]

(* ------------------------------------------------------------------ *)
(* TryAgainMechanismWithCoarseSenseInventory                           *)
(* ------------------------------------------------------------------ *)
\* line 207-208: None for a synset the table does not list
synset_id_to_csi_labels(wn, synset_id) ==
    IF synset_id \in DOMAIN wn.csi THEN wn.csi[synset_id] ELSE <<>>

\* lines 200-203, 210-211
csi_label_to_synsets(wn, csi_label) ==
    {s \in DOMAIN wn.csi : csi_label \in Range(wn.csi[s])}

\* the expansion without the candidate sense itself
TryAgainSynsetsCSIWithoutSelf(wn, candidate_synset_id) ==
    UNION {csi_label_to_synsets(wn, l) :
              l \in Range(synset_id_to_csi_labels(wn, candidate_synset_id))}
        \ {candidate_synset_id}

\* lines 243-251
TryAgainSynsetsCSI(wn, candidate_synset_id) ==
    UNION {csi_label_to_synsets(wn, l) : l \in Range(synset_id_to_csi_labels(wn, candidate_synset_id))}

\* lines 253-268; the CSI variant takes every lemma key and never averages
TryAgainSimilarityCSI(me, wn, query, candidate_synset_id) ==
    LET all == [lookup_first_lemma_sense_only |-> FALSE,
                average_similarity_in_synset |-> FALSE,
                similarity_metric |-> me.similarity_metric]
    IN  MaxOrZero(UNION {SynsetSimilarities(all, query, r) :
                            r \in TryAgainSynsetsCSI(wn, candidate_synset_id)})

ExpansionsCSI(me, wn, c) ==
    LET topk == TopK(c.keys, c.sims, c.top_k)
        cands == Range(DictKeys(topk))
        all == [lookup_first_lemma_sense_only |-> FALSE,
                average_similarity_in_synset |-> FALSE,
                similarity_metric |-> me.similarity_metric]
    IN  IF Len(c.keys) = 1 THEN <<>>
        ELSE [s \in cands |->
                LET synsets == TryAgainSynsetsCSI(wn, s)
                IN  Expansion(synsets, synsets, synsets, synsets,
                              UNION {SynsetSimilarities(all, c.query, r) : r \in synsets})]

\* line 244 starts each expansion from a new set() and line 251 unites the
\* table's sets into it, so the two tables are after the call what they were
AfterCSI(wn, expansions) == wn

ConsultedCSI(wn, c) ==
    LET topk == TopK(c.keys, c.sims, c.top_k)
        cands == Range(DictKeys(topk))
    IN  IF Len(c.keys) = 1 THEN {}
        ELSE IF topk = <<>> THEN {}
        ELSE {"lemma_key_to_synset_id", "synset_id_to_csi_labels"}
             \cup (IF \E s \in cands : synset_id_to_csi_labels(wn, s) # <<>>
                   THEN {"csi_label_to_synsets"} ELSE {})
             \cup (IF \E s \in cands : TryAgainSynsetsCSI(wn, s) # {}
                   THEN {"synset_to_lemma_keys", "get_lemma_key_embeddings"} ELSE {})

\* lines 213-277: try_again_mechanism returns the caller's two lists
TryAgainMechanismCSI(me, wn, c) ==
    LET topk == TopK(c.keys, c.sims, c.top_k)
        cands == Range(DictKeys(topk))
        try_again == [s \in cands |-> TryAgainSimilarityCSI(me, wn, c.query, s)]
    IN  IF Len(c.keys) = 1 THEN [keys |-> c.keys, sims |-> c.sims]
        ELSE [keys |-> c.keys, sims |-> Summand(c.keys, c.sims, topk, try_again)]

(* ------------------------------------------------------------------ *)
(* BaseEvaluator: metrics over two label collections                   *)
(* (floats are kept as exact fractions <<numerator, denominator>>)     *)
(* ------------------------------------------------------------------ *)
RECURSIVE GCD(_, _)
GCD(a, b) == IF b = 0 THEN a ELSE GCD(b, a % b)

\* the float n / d, d > 0, in lowest terms
Ratio(n, d) == LET g == GCD(Abs(n), d) IN <<n \div g, d \div g>>
Zero == <<0, 1>>
One == <<1, 1>>
ZeroDivisionError == <<0, 0>>
FracAdd(x, y) == Ratio(x[1] * y[2] + y[1] * x[2], x[2] * y[2])
FracMul(x, y) == Ratio(x[1] * y[1], x[2] * y[2])
\* x / y for non-negative floats: raises on a zero divisor
FracDiv(x, y) == IF y[1] = 0 THEN ZeroDivisionError ELSE Ratio(x[1] * y[2], x[2] * y[1])

\* a label collection is a bare string or an iterable of strings
Str(s) == [is_str |-> TRUE, value |-> <<s>>]
List(seq) == [is_str |-> FALSE, value |-> seq]

\* lines 25-29
iter_to_set(inputs) ==
    IF inputs.is_str THEN {inputs.value[1]} ELSE Range(inputs.value)

\* lines 31-38
precision(ground_truthes, predictions) ==
    LET numerator == iter_to_set(predictions) \cap iter_to_set(ground_truthes)
        denominator == iter_to_set(predictions)
    IN  IF Cardinality(denominator) = 0 THEN Zero
        ELSE Ratio(Cardinality(numerator), Cardinality(denominator))

\* lines 40-47
recall(ground_truthes, predictions) ==
    LET numerator == iter_to_set(predictions) \cap iter_to_set(ground_truthes)
        denominator == iter_to_set(ground_truthes)
    IN  IF Cardinality(denominator) = 0 THEN Zero
        ELSE Ratio(Cardinality(numerator), Cardinality(denominator))

\* _calc_f1_score without the guard of lines 50-51
calc_f1_score_unguarded(prec, rec) ==
    FracDiv(FracMul(<<2, 1>>, FracMul(prec, rec)), FracAdd(prec, rec))

\* lines 49-53
calc_f1_score(prec, rec) ==
    IF prec = rec /\ rec = Zero THEN Zero
    ELSE FracDiv(FracMul(<<2, 1>>, FracMul(prec, rec)), FracAdd(prec, rec))

\* lines 55-58
f1_score(ground_truthes, predictions) ==
    calc_f1_score(precision(ground_truthes, predictions), recall(ground_truthes, predictions))

\* accuracy that accepts every prediction set inside the ground truths
accuracy_subset(ground_truthes, predictions) ==
    IF iter_to_set(predictions) \subseteq iter_to_set(ground_truthes) THEN One ELSE Zero

\* lines 60-74
accuracy(ground_truthes, predictions) ==
    LET gt == iter_to_set(ground_truthes)
        pred == iter_to_set(predictions)
    IN  IF gt = pred THEN One ELSE Zero

Raised(error) == [raised |-> error]

\* lines 76-83
compute_metrics(ground_truthes, predictions) ==
    LET f1 == f1_score(ground_truthes, predictions)
    IN  IF f1 = ZeroDivisionError THEN Raised("ZeroDivisionError")
        ELSE [precision |-> precision(ground_truthes, predictions),
              recall |-> recall(ground_truthes, predictions),
              f1_score |-> f1,
              accuracy |-> accuracy(ground_truthes, predictions)]

MetricNames == {"precision", "recall", "f1_score", "accuracy"}

RECURSIVE FracSum(_)
FracSum(lst_values) ==
    IF lst_values = <<>> THEN Zero ELSE FracAdd(Head(lst_values), FracSum(Tail(lst_values)))

\* np.mean of a non-empty list
FracMean(lst_values) == FracDiv(FracSum(lst_values), <<Len(lst_values), 1>>)

\* macro_average that sums and never divides
macro_average_sum(lst_dict_metrics) ==
    [metric \in (IF lst_dict_metrics = <<>> THEN {} ELSE MetricNames) |->
        FracSum([i \in 1..Len(lst_dict_metrics) |-> lst_dict_metrics[i][metric]])]

\* lines 85-95: an empty list of records gives the empty dict
macro_average(lst_dict_metrics) ==
    [metric \in (IF lst_dict_metrics = <<>> THEN {} ELSE MetricNames) |->
        FracMean([i \in 1..Len(lst_dict_metrics) |-> lst_dict_metrics[i][metric]])]

\* pooling in which the first record of an instance id is kept
RECURSIVE PoolRecordsFirstWins(_, _)
PoolRecordsFirstWins(lst_dict_metrics, field) ==
    IF lst_dict_metrics = <<>> THEN <<>>
    ELSE LET pooled == PoolRecordsFirstWins(PySliceTo(lst_dict_metrics, Len(lst_dict_metrics) - 1), field)
             last == lst_dict_metrics[Len(lst_dict_metrics)][field]
         IN  [id \in DOMAIN pooled \cup DOMAIN last |->
                 IF id \in DOMAIN pooled THEN pooled[id] ELSE last[id]]

\* lines 132-136: dict.update with each record's {instance_id: labels}, in list
\* order; a later record of an instance id replaces an earlier one
RECURSIVE PoolRecords(_, _)
PoolRecords(lst_dict_metrics, field) ==
    IF lst_dict_metrics = <<>> THEN <<>>
    ELSE LET pooled == PoolRecords(PySliceTo(lst_dict_metrics, Len(lst_dict_metrics) - 1), field)
             last == lst_dict_metrics[Len(lst_dict_metrics)][field]
         IN  [id \in DOMAIN pooled \cup DOMAIN last |->
                 IF id \in DOMAIN last THEN last[id] ELSE pooled[id]]

\* the gold senses of the pooled ground truths and the instances of a gold sense
GoldSenses(dict_ground_truthes) ==
    UNION {Range(dict_ground_truthes[id]) : id \in DOMAIN dict_ground_truthes}
InstancesOfSense(dict_ground_truthes, sense) ==
    {id \in DOMAIN dict_ground_truthes : sense \in Range(dict_ground_truthes[id])}

\* precision, recall and F1 of one gold sense, from the predictions of its instances
SenseScore(dict_ground_truthes, dict_predictions, sense) ==
    LET instances == InstancesOfSense(dict_ground_truthes, sense)
        answered == {id \in instances : id \in DOMAIN dict_predictions
                                         /\ dict_predictions[id] # <<>>}
        correct == {id \in answered : sense \in Range(dict_predictions[id])}
        prec == IF answered = {} THEN Zero
                ELSE Ratio(Cardinality(correct), Cardinality(answered))
        rec == Ratio(Cardinality(correct), Cardinality(instances))
    IN  [precision |-> prec, recall |-> rec, f1_score |-> calc_f1_score(prec, rec)]

RECURSIVE SenseScoreSum(_, _, _, _)
SenseScoreSum(dict_ground_truthes, dict_predictions, senses, metric) ==
    IF senses = {} THEN Zero
    ELSE LET sense == CHOOSE sense \in senses : TRUE
         IN  FracAdd(SenseScore(dict_ground_truthes, dict_predictions, sense)[metric],
                     SenseScoreSum(dict_ground_truthes, dict_predictions,
                                   senses \ {sense}, metric))

\* compute_macro_f1_score_by_maru: the per-sense scores averaged uniformly over
\* the gold senses
compute_macro_f1_score_by_maru(dict_ground_truthes, dict_predictions) ==
    LET senses == GoldSenses(dict_ground_truthes)
    IN  [metric \in {"precision", "recall", "f1_score"} |->
            IF senses = {} THEN Zero
            ELSE FracDiv(SenseScoreSum(dict_ground_truthes, dict_predictions, senses, metric),
                         <<Cardinality(senses), 1>>)]

\* lines 132-138: the pooled maps handed to compute_macro_f1_score_by_maru
MaruOfRecords(lst_dict_metrics) ==
    compute_macro_f1_score_by_maru(PoolRecords(lst_dict_metrics, "ground_truthes"),
                                   PoolRecords(lst_dict_metrics, "predictions"))

\* macro_average whose recall_by_raganato is taken from the mean recall
macro_average_by_raganato_from_recall(lst_dict_metrics) ==
    LET dict_ret == macro_average(lst_dict_metrics)
    IN  IF "precision" \notin DOMAIN dict_ret THEN Raised("KeyError")
        ELSE [precision |-> dict_ret["precision"],
              recall |-> dict_ret["recall"],
              f1_score |-> dict_ret["f1_score"],
              accuracy |-> dict_ret["accuracy"],
              recall_by_raganato |-> dict_ret["recall"],
              f1_score_by_raganato |->
                  calc_f1_score(dict_ret["precision"], dict_ret["recall"]),
              macro_precision_by_maru |-> MaruOfRecords(lst_dict_metrics)["precision"],
              macro_recall_by_maru |-> MaruOfRecords(lst_dict_metrics)["recall"],
              macro_f1_score_by_maru |-> MaruOfRecords(lst_dict_metrics)["f1_score"]]

\* BaseEvaluatorByRaganatoAndMaru.macro_average stopping at the plain average
macro_average_without_extras(lst_dict_metrics) == macro_average(lst_dict_metrics)

\* lines 112-143: BaseEvaluatorByRaganatoAndMaru.macro_average; dict_ret["precision"]
\* of the empty dict raises KeyError
macro_average_by_raganato(lst_dict_metrics) ==
    LET dict_ret == macro_average(lst_dict_metrics)
        n_ == Len(lst_dict_metrics)
    IN  IF "precision" \notin DOMAIN dict_ret THEN Raised("KeyError")
        ELSE LET recall_by_raganato ==
                    FracDiv(FracMul(dict_ret["precision"], <<n_, 1>>), <<n_, 1>>)
             IN  [precision |-> dict_ret["precision"],
                  recall |-> dict_ret["recall"],
                  f1_score |-> dict_ret["f1_score"],
                  accuracy |-> dict_ret["accuracy"],
                  recall_by_raganato |-> recall_by_raganato,
                  f1_score_by_raganato |->
                      calc_f1_score(dict_ret["precision"], recall_by_raganato),
                  macro_precision_by_maru |-> MaruOfRecords(lst_dict_metrics)["precision"],
                  macro_recall_by_maru |-> MaruOfRecords(lst_dict_metrics)["recall"],
                  macro_f1_score_by_maru |-> MaruOfRecords(lst_dict_metrics)["f1_score"]]

(* ------------------------------------------------------------------ *)
(* WSDTaskEvaluatorBase                                                *)
(* ------------------------------------------------------------------ *)
\* a value of dict_dict_results or of the summary: a list (leaf) or a nested dict
Leaf(records) == [leaf |-> TRUE, records |-> records, children |-> <<>>]
Branch(children) == [leaf |-> FALSE, records |-> <<>>, children |-> children]

\* lines 198-202
lemma_to_lexname(lemma_key) == TwoLexnames[lemma_key_to_synset_id(lemma_key)]

\* lines 210-214
compute_metrics_of_category(evaluation_category, ground_truthes, predictions) ==
    IF evaluation_category = "lexname"
    THEN compute_metrics(
            List([i \in 1..Len(ground_truthes) |-> lemma_to_lexname(ground_truthes[i])]),
            List([i \in 1..Len(predictions) |-> lemma_to_lexname(predictions[i])]))
    ELSE compute_metrics(List(ground_truthes), List(predictions))

\* concat.join(parts)
RECURSIVE Join(_, _)
Join(parts, concat) ==
    IF parts = <<>> THEN ""
    ELSE IF Len(parts) = 1 THEN parts[1]
    ELSE parts[1] \o concat \o Join(Tail(parts), concat)

\* _get_attr_key_and_values keeping the value of the first attribute only
get_attr_key_and_first_value(set_attr_names, example) ==
    <<Join(set_attr_names, "|"), example[set_attr_names[1]]>>

\* lines 226-229; set_attr_names is the set in its iteration order
get_attr_key_and_values(set_attr_names, example) ==
    <<Join(set_attr_names, "|"),
      Join([i \in 1..Len(set_attr_names) |-> example[set_attr_names[i]]], "|")>>

\* the record whose two maps hold the labels as compute_metrics compared them
\* (the lexnames under the category "lexname")
MetricRecordOfComparedLabels(evaluation_category, obj, inputs_for_evaluator, predictions) ==
    LET ground_truthes == inputs_for_evaluator.ground_truth_lemma_keys
        dict_metrics == compute_metrics_of_category(evaluation_category,
                                                    ground_truthes, predictions)
        instance_id == inputs_for_evaluator.id
        compared(labels) == IF evaluation_category = "lexname"
                            THEN [i \in 1..Len(labels) |-> lemma_to_lexname(labels[i])]
                            ELSE labels
    IN  [obj |-> obj,
         precision |-> dict_metrics.precision,
         recall |-> dict_metrics.recall,
         f1_score |-> dict_metrics.f1_score,
         accuracy |-> dict_metrics.accuracy,
         predictions |-> [i \in {instance_id} |-> compared(predictions)],
         ground_truthes |-> [i \in {instance_id} |-> compared(ground_truthes)]]

\* lines 250-258: the record of one instance; obj tells the dict objects apart
MetricRecord(evaluation_category, obj, inputs_for_evaluator, predictions) ==
    LET ground_truthes == inputs_for_evaluator.ground_truth_lemma_keys
        dict_metrics == compute_metrics_of_category(evaluation_category,
                                                    ground_truthes, predictions)
        instance_id == inputs_for_evaluator.id
    IN  [obj |-> obj,
         precision |-> dict_metrics.precision,
         recall |-> dict_metrics.recall,
         f1_score |-> dict_metrics.f1_score,
         accuracy |-> dict_metrics.accuracy,
         predictions |-> [i \in {instance_id} |-> predictions],
         ground_truthes |-> [i \in {instance_id} |-> ground_truthes]]

\* d[key] = value
DictSet(d, key, value) ==
    [k \in DOMAIN d \cup {key} |-> IF k = key THEN value ELSE d[k]]

\* line 277
AppendToAll(results, dict_metrics) ==
    DictSet(results, "ALL", Leaf(Append(results["ALL"].records, dict_metrics)))

\* line 282 on defaultdict(lambda: defaultdict(list))
AppendToGroup(results, grouper_attr, breakdown_value, dict_metrics) ==
    LET group == IF grouper_attr \in DOMAIN results
                 THEN results[grouper_attr].children ELSE <<>>
        lst == IF breakdown_value \in DOMAIN group
               THEN group[breakdown_value].records ELSE <<>>
    IN  DictSet(results, grouper_attr,
                Branch(DictSet(group, breakdown_value, Leaf(Append(lst, dict_metrics)))))

\* lines 279-282, over the breakdown attribute sets from position a on
RECURSIVE AppendToBreakdowns(_, _, _, _, _)
AppendToBreakdowns(results, breakdown_attributes, a, inputs_for_evaluator, dict_metrics) ==
    IF a > Len(breakdown_attributes) THEN results
    ELSE LET kv == get_attr_key_and_values(breakdown_attributes[a], inputs_for_evaluator)
         IN  AppendToBreakdowns(AppendToGroup(results, kv[1], kv[2], dict_metrics),
                                breakdown_attributes, a + 1,
                                inputs_for_evaluator, dict_metrics)

\* the descent that averages the lists and leaves out the nested mappings
macro_average_recursive_lists_only(dict_lst_dict_metrics) ==
    [key \in {k \in DOMAIN dict_lst_dict_metrics : dict_lst_dict_metrics[k].leaf} |->
        macro_average_by_raganato(dict_lst_dict_metrics[key].records)]

\* lines 97-107, with the macro_average of BaseEvaluatorByRaganatoAndMaru
RECURSIVE macro_average_recursive(_)
macro_average_recursive(dict_lst_dict_metrics) ==
    [key \in DOMAIN dict_lst_dict_metrics |->
        IF dict_lst_dict_metrics[key].leaf
        THEN macro_average_by_raganato(dict_lst_dict_metrics[key].records)
        ELSE macro_average_recursive(dict_lst_dict_metrics[key].children)]

\* whether the macro_average of some list below raises (line 127 on the empty dict)
RECURSIVE AveragingRaises(_)
AveragingRaises(dict_lst_dict_metrics) ==
    \E key \in DOMAIN dict_lst_dict_metrics :
        IF dict_lst_dict_metrics[key].leaf
        THEN macro_average_by_raganato(dict_lst_dict_metrics[key].records) = Raised("KeyError")
        ELSE AveragingRaises(dict_lst_dict_metrics[key].children)

(* ------------------------------------------------------------------ *)
(* The re-ranker as a state machine                                    *)
(* ------------------------------------------------------------------ *)
SimilarityMetrics == {"cosine", "dot"}
PartsOfSpeech == {"n", "v", "a"}
InputScores == {2, 4}

\* candidate lists: pairwise distinct lemma keys of one lemma, 1..MaxCand long
CandidateLists ==
    UNION {{ks \in [1..n -> CandidateKeys] : \A i, j \in 1..n : i # j => ks[i] # ks[j]} :
             n \in 1..Min2(MaxCand, Cardinality(CandidateKeys))}

NoCall == [pos |-> "n", keys |-> <<>>, sims |-> <<>>, top_k |-> 0, top_k_given |-> TRUE,
           query |-> <<0, 0>>]
NoRet == [keys |-> <<>>, sims |-> <<>>]

\* top_k_candidates as the caller passes it: a size, or None for "left out"
None == -1
TopKArguments == (1..MaxTopK) \cup {None}

\* TryAgainMechanism.__init__ (lines 46-60)
RelationWalkRerankers ==
    [variant : {"relation"},
     exclude_common_semantically_related_synsets : BOOLEAN,
     lookup_first_lemma_sense_only : BOOLEAN,
     average_similarity_in_synset : BOOLEAN,
     exclude_oneselves_for_noun_and_verb : BOOLEAN,
     do_not_fix_synset_degeneration_bug : BOOLEAN,
     similarity_metric : SimilarityMetrics]

\* TryAgainMechanismWithCoarseSenseInventory.__init__ (lines 172-184)
CsiRerankers ==
    [variant : {"csi"}, similarity_metric : SimilarityMetrics]

\* the parts of the state a specification does not exercise
NoMetricCall == [ground_truthes |-> List(<<>>), predictions |-> List(<<>>)]
NoMetrics == [pending |-> TRUE]
NoEvaluator == [evaluation_category |-> "lemma", breakdown_attributes |-> <<>>]
NoSummary == <<>>
NoReranker == [variant |-> "none"]
NoWordNet == [related |-> NoRelations, lexname |-> OneLexname, csi |-> <<>>, broken |-> "none"]

NoConstruction == [class |-> "none"]
NotBuilt == [status |-> "pending"]

ConstructIdle ==
    /\ ctor = NoConstruction
    /\ built = NotBuilt
    /\ in_use = FALSE

NoDataset == [raise_error_on_unknown_lemma |-> TRUE,
              n_ancestor_hop_of_ground_truth_synset |-> 0, entities |-> <<>>]

IterIdle ==
    /\ wsd_dataset = NoDataset
    /\ iter_pc = "idle"
    /\ position = 1
    /\ yielded = <<>>
    /\ warned = <<>>
    /\ iter_error = "none"

AuxIdle == ConstructIdle /\ IterIdle

RerankIdle ==
    /\ self = NoReranker
    /\ wordnet = NoWordNet
    /\ call = NoCall
    /\ ret = NoRet
    /\ consulted = {}
    /\ raised = "none"
    /\ attempts = 0
    /\ dict_try_again_synsets = <<>>
    /\ wordnet_loaded = wordnet

MetricsIdle ==
    /\ metric_call = NoMetricCall
    /\ metric_ret = NoMetrics

EvalIdle ==
    /\ evaluator = NoEvaluator
    /\ eval_pc = "off"
    /\ consumed = <<>>
    /\ dict_dict_results = <<>>
    /\ dict_summary = NoSummary
    /\ dataset = <<>>
    /\ returned = <<>>

InitRerank ==
    /\ AuxIdle
    /\ MetricsIdle
    /\ EvalIdle
    /\ \/ /\ self \in RelationWalkRerankers
          /\ \E w \in WordNets :
                wordnet = [related |-> w.related, lexname |-> w.lexname,
                           csi |-> <<>>, broken |-> "none"]
       \/ /\ self \in CsiRerankers
          /\ \E t \in CsiTables :
                wordnet = [related |-> NoRelations, lexname |-> OneLexname, csi |-> t,
                           broken |-> "none"]
    /\ call = NoCall
    /\ ret = NoRet
    /\ consulted = {}
    /\ raised = "none"
    /\ attempts = 0
    /\ dict_try_again_synsets = <<>>
    /\ wordnet_loaded = wordnet

\* line 67 / 218: top_k_candidates:int = 2
top_k_candidates_default == 2

\* the arguments of a call; top_k is None when the caller leaves out
\* top_k_candidates, which then takes its default
Arguments(keys, sims, pos, top_k, query) ==
    [pos |-> pos, keys |-> keys, sims |-> sims,
     top_k |-> IF top_k = None THEN top_k_candidates_default ELSE top_k,
     top_k_given |-> top_k # None, query |-> query]

\* the collaborators in the order in which a call first reaches them (lines
\* 85, 100, 109, 114, 125, 128 and 233, 244, 247, 254, 255)
LookupOrder ==
    <<"lemma_key_to_synset_id", "gloss_extend", "synset_id_to_lexname",
      "get_lexname_synsets", "synset_id_to_csi_labels", "csi_label_to_synsets",
      "synset_to_lemma_keys", "get_lemma_key_embeddings">>
Collaborators == Range(LookupOrder)
ReachedBefore(a, b) == ListIndex(LookupOrder, a) <= ListIndex(LookupOrder, b)

\* the caller's score list already holding a sum when a lookup fails
SimilaritiesAtRaiseWritten(c) == [c.sims EXCEPT ![1] = @ + 1]

\* lines 80-141: up to the first failing lookup only the local dicts are written
\* (line 95 returns without a further lookup), the caller's list is as on input
SimilaritiesAtRaise(c) == c.sims

\* no try/except and no loop around a lookup: its exception leaves the call
AttemptsOfFailedLookup == 1

\* how a call ends: it returns the lists, or the first lookup of the broken
\* collaborator raises and the exception propagates to the caller
Outcome(c, returns, lookups, expansions, after) ==
    /\ call' = c
    /\ IF wordnet.broken \in lookups
       THEN /\ raised' = wordnet.broken
            /\ attempts' = AttemptsOfFailedLookup
            /\ ret' = [keys |-> c.keys, sims |-> SimilaritiesAtRaise(c)]
            /\ consulted' = {l \in lookups : ReachedBefore(l, wordnet.broken)}
            /\ dict_try_again_synsets' = <<>>
            /\ wordnet' = wordnet
       ELSE /\ raised' = "none"
            /\ attempts' = 0
            /\ ret' = returns
            /\ consulted' = lookups
            /\ dict_try_again_synsets' = expansions
            /\ wordnet' = after

\* one call of TryAgainMechanism.try_again_mechanism
CallRelationWalk ==
    /\ self.variant = "relation"
    /\ call = NoCall
    /\ \E keys \in CandidateLists, pos \in PartsOfSpeech, top_k \in TopKArguments, query \in Queries :
         \E sims \in [1..Len(keys) -> InputScores] :
            LET c == Arguments(keys, sims, pos, top_k, query)
            IN
                Outcome(c, TryAgainMechanism(self, wordnet, c),
                        ConsultedRelation(self, wordnet, c),
                        ExpansionsRelation(self, wordnet, c),
                        AfterRelationWalk(wordnet, ExpansionsRelation(self, wordnet, c)))
    /\ UNCHANGED <<self, wordnet_loaded, metric_vars, eval_vars, aux_vars>>

\* one call of TryAgainMechanismWithCoarseSenseInventory.try_again_mechanism
CallCSI ==
    /\ self.variant = "csi"
    /\ call = NoCall
    /\ \E keys \in CandidateLists, pos \in PartsOfSpeech, top_k \in TopKArguments, query \in Queries :
         \E sims \in [1..Len(keys) -> InputScores] :
            LET c == Arguments(keys, sims, pos, top_k, query)
            IN
                Outcome(c, TryAgainMechanismCSI(self, wordnet, c),
                        ConsultedCSI(wordnet, c),
                        ExpansionsCSI(self, wordnet, c),
                        AfterCSI(wordnet, ExpansionsCSI(self, wordnet, c)))
    /\ UNCHANGED <<self, wordnet_loaded, metric_vars, eval_vars, aux_vars>>

\* the caller takes the ranking and comes back with the next instance
NextInstance ==
    /\ call # NoCall
    /\ call' = NoCall
    /\ ret' = NoRet
    /\ consulted' = {}
    /\ raised' = "none"
    /\ attempts' = 0
    /\ dict_try_again_synsets' = <<>>
    /\ UNCHANGED <<self, wordnet, wordnet_loaded, metric_vars, eval_vars, aux_vars>>

Next == CallRelationWalk \/ CallCSI \/ NextInstance

Spec == InitRerank /\ [][Next]_vars

(* ------------------------------------------------------------------ *)
(* The re-ranker with a collaborator that fails                        *)
(* ------------------------------------------------------------------ *)
\* the flags that decide which lookups a call makes, one setting of the others
LookupRerankers ==
    {r \in RelationWalkRerankers :
        r.similarity_metric = "cosine" /\ ~r.average_similarity_in_synset}
    \cup {r \in CsiRerankers : r.similarity_metric = "cosine"}

InitBroken ==
    /\ AuxIdle
    /\ MetricsIdle
    /\ EvalIdle
    /\ self \in LookupRerankers
    /\ \E b \in Collaborators :
          wordnet = IF self.variant = "relation"
                    THEN [related |-> DenseRelations, lexname |-> TwoLexnames,
                          csi |-> <<>>, broken |-> b]
                    ELSE [related |-> NoRelations, lexname |-> OneLexname,
                          csi |-> [s \in {"s1", "s2", "r1"} |->
                                     CASE s = "s1" -> <<"ART">>
                                       [] s = "s2" -> <<"ART", "FOOD">>
                                       [] OTHER -> <<"FOOD">>],
                          broken |-> b]
    /\ call = NoCall
    /\ ret = NoRet
    /\ consulted = {}
    /\ raised = "none"
    /\ attempts = 0
    /\ dict_try_again_synsets = <<>>
    /\ wordnet_loaded = wordnet

SpecBroken == InitBroken /\ [][Next]_vars

(* ------------------------------------------------------------------ *)
(* Construction of the re-rankers and of the evaluator                 *)
(* ------------------------------------------------------------------ *)
\* utils_wordnet_gloss.synset_offset_to_synset_id: two spellings of one offset
\* translate to the same synset id
synset_offset_to_synset_id(synset_index) ==
    CASE synset_index = "o1" -> "s1"
      [] synset_index = "o1b" -> "s1"
      [] OTHER -> "s2"
SynsetOffsets == {"o1", "o1b", "o2"}

\* record.strip().split("\t") on a line given by its tab-separated fields: the
\* strip takes away the empty fields at both ends, the split of "" is [""]
RECURSIVE StripSplit(_)
StripSplit(fields) ==
    IF fields = <<>> THEN <<"">>
    ELSE IF fields[1] = "" THEN StripSplit(Tail(fields))
    ELSE IF fields[Len(fields)] = "" THEN StripSplit(PySliceTo(fields, Len(fields) - 1))
    ELSE fields

\* load that lets the later of two lines of one synset id replace the earlier
RECURSIVE LoadRecordsOverwriting(_, _, _)
LoadRecordsOverwriting(lines, i, dict_synset_id_to_csi_labels) ==
    IF i > Len(lines) THEN dict_synset_id_to_csi_labels
    ELSE LET lst_items == StripSplit(lines[i])
             synset_id == synset_offset_to_synset_id(lst_items[1])
         IN  IF Len(lst_items) < 2 THEN Raised("AssertionError")
             ELSE LoadRecordsOverwriting(lines, i + 1,
                                         DictSet(dict_synset_id_to_csi_labels, synset_id,
                                                 Tail(lst_items)))

\* the loop of lines 190-197 from line i on; the two assertions end the load
RECURSIVE LoadRecords(_, _, _)
LoadRecords(lines, i, dict_synset_id_to_csi_labels) ==
    IF i > Len(lines) THEN dict_synset_id_to_csi_labels
    ELSE LET lst_items == StripSplit(lines[i])
             synset_id == synset_offset_to_synset_id(lst_items[1])
         IN  IF Len(lst_items) < 2 THEN Raised("AssertionError")
             ELSE IF synset_id \in DOMAIN dict_synset_id_to_csi_labels
                  THEN Raised("AssertionError")
                  ELSE LoadRecords(lines, i + 1,
                                   DictSet(dict_synset_id_to_csi_labels, synset_id,
                                           Tail(lst_items)))

\* lines 186-205: the two tables, or the AssertionError of lines 192 and 196
load_coarse_sense_inventory_dataset(lines) ==
    LET dict_synset_id_to_csi_labels == LoadRecords(lines, 1, <<>>)
    IN  IF dict_synset_id_to_csi_labels = Raised("AssertionError")
        THEN Raised("AssertionError")
        ELSE [synset_id_to_csi_labels |-> dict_synset_id_to_csi_labels,
              csi_label_to_synset_ids |->
                 [csi_label \in UNION {Range(dict_synset_id_to_csi_labels[sid]) :
                                          sid \in DOMAIN dict_synset_id_to_csi_labels} |->
                     {sid \in DOMAIN dict_synset_id_to_csi_labels :
                         csi_label \in Range(dict_synset_id_to_csi_labels[sid])}]]

\* the lines a CSI file can hold: an offset and labels, also with a tab at the
\* end, an offset alone and the empty line
CsiLines ==
    {<<o>> \o labels : o \in SynsetOffsets,
                       labels \in {<<>>, <<"ART">>, <<"FOOD">>, <<"ART", "FOOD">>, <<"ART", "">>}}
    \cup {<<"">>}
CsiFiles == UNION {[1..n -> CsiLines] : n \in 0..MaxLines}

GivenSimilarityMetrics == {"cosine", "dot", "euclidean"}
GivenEvaluationCategories == {"lemma", "lexname", "synset"}

Constructions ==
    [class : {"TryAgainMechanism"}, similarity_metric : GivenSimilarityMetrics,
     evaluation_category : {"lemma"}, path_coarse_sense_inventory : {<<>>}]
    \cup [class : {"TryAgainMechanismWithCoarseSenseInventory"},
          similarity_metric : GivenSimilarityMetrics,
          evaluation_category : {"lemma"}, path_coarse_sense_inventory : CsiFiles]
    \cup [class : {"WSDTaskEvaluatorBase"}, similarity_metric : {"cosine"},
          evaluation_category : GivenEvaluationCategories,
          path_coarse_sense_inventory : {<<>>}]

Failed(error, loaded) == [status |-> "raised", error |-> error, loaded |-> loaded]
Built(object, loaded) == [status |-> "ok", object |-> object, loaded |-> loaded]

\* construction that stores whatever metric name it is given
TryAgainMechanismInitUnchecked(args) ==
    Built([variant |-> "relation", similarity_metric |-> args.similarity_metric], FALSE)

\* wsd_heuristics.py lines 46-60
TryAgainMechanismInit(args) ==
    IF args.similarity_metric \notin {"cosine", "dot"} THEN Failed("ValueError", FALSE)
    ELSE Built([variant |-> "relation", similarity_metric |-> args.similarity_metric], FALSE)

\* wsd_heuristics.py lines 172-184
TryAgainMechanismWithCoarseSenseInventoryInit(args) ==
    IF args.similarity_metric \notin {"cosine", "dot"} THEN Failed("ValueError", FALSE)
    ELSE LET tables == load_coarse_sense_inventory_dataset(args.path_coarse_sense_inventory)
         IN  IF tables = Raised("AssertionError") THEN Failed("AssertionError", TRUE)
             ELSE Built([variant |-> "csi", similarity_metric |-> args.similarity_metric,
                         dict_synset_id_to_csi_labels |-> tables.synset_id_to_csi_labels,
                         dict_csi_label_to_synsets |-> tables.csi_label_to_synset_ids],
                        TRUE)

\* _supervised_base.py lines 156-178; the assertion of lines 159-161
WSDTaskEvaluatorBaseInit(args) ==
    IF args.evaluation_category \notin {"lemma", "lexname"}
    THEN Failed("AssertionError", FALSE)
    ELSE Built([evaluation_category |-> args.evaluation_category], FALSE)

InitConstruct ==
    /\ IterIdle
    /\ RerankIdle
    /\ MetricsIdle
    /\ EvalIdle
    /\ ctor \in Constructions
    /\ built = NotBuilt
    /\ in_use = FALSE

\* the constructor runs
Construct ==
    /\ built = NotBuilt
    /\ built' = CASE ctor.class = "TryAgainMechanism" -> TryAgainMechanismInit(ctor)
                  [] ctor.class = "TryAgainMechanismWithCoarseSenseInventory" ->
                        TryAgainMechanismWithCoarseSenseInventoryInit(ctor)
                  [] OTHER -> WSDTaskEvaluatorBaseInit(ctor)
    /\ UNCHANGED <<ctor, in_use, rerank_vars, metric_vars, eval_vars, iter_vars>>

\* the caller holds an object only when the constructor returned
Use ==
    /\ built.status = "ok"
    /\ ~in_use
    /\ in_use' = TRUE
    /\ UNCHANGED <<ctor, built, rerank_vars, metric_vars, eval_vars, iter_vars>>

NextConstruct == Construct \/ Use

SpecConstruct == InitConstruct /\ [][NextConstruct]_vars

(* ------------------------------------------------------------------ *)
(* WSDTaskDataset: the entity generator                                *)
(* ------------------------------------------------------------------ *)
\* the entities of the sentences in reading order, each with what the lemma
\* dataset and the synset dataset answer for it: a lemma the lemma dataset does
\* not hold, a monosemous lemma with two ancestors, a monosemous lemma whose
\* synset has no ancestor, and a lemma with two synsets
EntityKinds ==
    { [lemma_known |-> FALSE, synset_ids |-> <<>>, ancestors |-> <<>>],
      [lemma_known |-> TRUE, synset_ids |-> <<"s1">>, ancestors |-> <<"a1", "a2">>],
      [lemma_known |-> TRUE, synset_ids |-> <<"s2">>, ancestors |-> <<>>],
      [lemma_known |-> TRUE, synset_ids |-> <<"s1", "s3">>, ancestors |-> <<"a1">>] }

WSDTaskDatasets ==
    [raise_error_on_unknown_lemma : BOOLEAN,
     n_ancestor_hop_of_ground_truth_synset : 0..MaxHop,
     entities : UNION {[1..n -> EntityKinds] : n \in 0..MaxEntities}]

\* _test_if_unknown_lemma that raises whatever the flag says
test_if_unknown_lemma_always_raising(ds, entity) ==
    IF ~entity.lemma_known THEN "raise" ELSE "known"

\* lines 51-58: raises, or warns and returns True, or returns None
test_if_unknown_lemma(ds, entity) ==
    IF ~entity.lemma_known
    THEN IF ds.raise_error_on_unknown_lemma THEN "raise" ELSE "skip"
    ELSE "known"

Warning(idx, message) == [entity |-> idx, message |-> message]
Suspended(pc, idx, warnings, records, error) ==
    [pc |-> pc, position |-> idx, warned |-> warnings, yielded |-> records,
     error |-> error]

\* lines 69-110: the generator runs from entity idx to its next yield, to an
\* exception or to the end of the entities
RECURSIVE entity_loader(_, _, _, _)
entity_loader(ds, idx, warnings, records) ==
    IF idx > Len(ds.entities) THEN Suspended("exhausted", idx, warnings, records, "none")
    ELSE LET entity == ds.entities[idx]
             unknown == test_if_unknown_lemma(ds, entity)
             hop == ds.n_ancestor_hop_of_ground_truth_synset
         IN  IF unknown = "raise"
             THEN Suspended("raised", idx, warnings, records, "ValueError")
             ELSE IF unknown = "skip"
             THEN entity_loader(ds, idx + 1,
                                Append(warnings, Warning(idx, "unknown lemma detected")),
                                records)
             ELSE IF Len(entity.synset_ids) # 1
             THEN Suspended("raised", idx, warnings, records, "AssertionError")
             ELSE IF hop = 0
             THEN Suspended("running", idx + 1, warnings,
                            Append(records, [entity |-> idx,
                                             ground_truth_synset_id |-> entity.synset_ids[1]]),
                            "none")
             ELSE IF Len(entity.ancestors) = 0
             THEN entity_loader(ds, idx + 1,
                                Append(warnings,
                                       Warning(idx, "failed to lookup ancestor synset")),
                                records)
             ELSE Suspended("running", idx + 1, warnings,
                            Append(records,
                                   [entity |-> idx,
                                    ground_truth_synset_id |->
                                        entity.ancestors[Min2(hop, Len(entity.ancestors))]]),
                            "none")

InitDataset ==
    /\ ConstructIdle
    /\ RerankIdle
    /\ MetricsIdle
    /\ EvalIdle
    /\ wsd_dataset \in WSDTaskDatasets
    /\ iter_pc = "idle"
    /\ position = 1
    /\ yielded = <<>>
    /\ warned = <<>>
    /\ iter_error = "none"

\* lines 141-150: __iter__ makes a new generator over the entities
Iterate ==
    /\ iter_pc \in {"idle", "exhausted", "raised"}
    /\ iter_pc' = "running"
    /\ position' = 1
    /\ yielded' = <<>>
    /\ warned' = <<>>
    /\ iter_error' = "none"
    /\ UNCHANGED <<wsd_dataset, ctor_vars, rerank_vars, metric_vars, eval_vars>>

\* the consumer asks the generator for its next record
NextRecord ==
    /\ iter_pc = "running"
    /\ LET after == entity_loader(wsd_dataset, position, warned, yielded)
       IN  /\ iter_pc' = after.pc
           /\ position' = after.position
           /\ yielded' = after.yielded
           /\ warned' = after.warned
           /\ iter_error' = after.error
    /\ UNCHANGED <<wsd_dataset, ctor_vars, rerank_vars, metric_vars, eval_vars>>

NextDataset == Iterate \/ NextRecord

SpecDataset == InitDataset /\ [][NextDataset]_vars

(* ------------------------------------------------------------------ *)
(* BaseEvaluator.compute_metrics applied to bounded inputs             *)
(* ------------------------------------------------------------------ *)
Labels == {"a", "b", "c"}

\* bare strings and lists (with repetitions) of at most MaxLabels labels
LabelCollections ==
    {Str(l) : l \in Labels}
    \cup UNION {{List(seq) : seq \in [1..n -> Labels]} : n \in 0..MaxLabels}

InitMetrics ==
    /\ AuxIdle
    /\ RerankIdle
    /\ EvalIdle
    /\ metric_call \in [ground_truthes : LabelCollections, predictions : LabelCollections]
    /\ metric_ret = NoMetrics

\* one call of BaseEvaluator.compute_metrics
ComputeMetrics ==
    /\ metric_ret = NoMetrics
    /\ metric_ret' = compute_metrics(metric_call.ground_truthes, metric_call.predictions)
    /\ UNCHANGED <<metric_call, rerank_vars, eval_vars, aux_vars>>

NextMetrics == ComputeMetrics

SpecMetrics == InitMetrics /\ [][NextMetrics]_vars

(* ------------------------------------------------------------------ *)
(* WSDTaskEvaluatorBase.evaluate as a state machine                    *)
(* ------------------------------------------------------------------ *)
EvaluationCategories == {"lemma", "lexname"}

\* breakdown_attributes: each attribute set in the order Python iterates it
\* (lines 172-175; the order of a set of two strings is the interpreter's)
BreakdownAttributes ==
    { <<<<"corpus_id">>, <<"pos_orig">>, <<"corpus_id", "pos_orig">>>>,
      <<<<"corpus_id">>, <<"pos_orig">>, <<"pos_orig", "corpus_id">>>>,
      <<<<"pos_orig">>>>,
      <<>> }

\* the entities the evaluation dataset can yield (inputs_for_evaluator); d1 and d3
\* are two instances of one gold sense
Entities ==
    { [id |-> "d1", corpus_id |-> "X", pos_orig |-> "n", ground_truth_lemma_keys |-> <<"k1">>],
      [id |-> "d2", corpus_id |-> "X", pos_orig |-> "v", ground_truth_lemma_keys |-> <<"k3", "k4">>],
      [id |-> "d3", corpus_id |-> "Y", pos_orig |-> "n", ground_truth_lemma_keys |-> <<"k1">>] }

\* what predict() can answer
Predictions == {<<"k1">>, <<"k2">>, <<"k3">>}

\* WSDTaskEvaluatorBase.__init__ (lines 156-178)
InitEval ==
    /\ AuxIdle
    /\ RerankIdle
    /\ MetricsIdle
    /\ evaluator \in [evaluation_category : EvaluationCategories,
                      breakdown_attributes : BreakdownAttributes]
    /\ eval_pc = "off"
    /\ consumed = <<>>
    /\ dict_dict_results = <<>>
    /\ dict_summary = NoSummary
    /\ dataset = <<>>
    /\ returned = <<>>

\* evaluate() that goes on with the groups of the call before
KeptResults ==
    IF "ALL" \in DOMAIN dict_dict_results THEN dict_dict_results
    ELSE DictSet(<<>>, "ALL", Leaf(<<>>))

\* lines 271-272: the groups are a new local dict holding the empty "ALL" list
NewResults == DictSet(<<>>, "ALL", Leaf(<<>>))

\* lines 269-274: evaluate() starts (again) from the "ALL" group alone
StartEvaluate ==
    /\ eval_pc \in {"off", "done", "raised"}
    /\ eval_pc' = "loop"
    /\ consumed' = <<>>
    /\ dict_dict_results' = NewResults
    /\ dict_summary' = NoSummary
    /\ UNCHANGED <<evaluator, dataset, rerank_vars, metric_vars, aux_vars>>

EvaluateBegin ==
    /\ StartEvaluate
    /\ UNCHANGED returned

\* lines 275-282: one pass of the loop over the evaluation dataset
RecordInstance(inputs_for_evaluator, predictions) ==
    /\ eval_pc = "loop"
    /\ LET dict_metrics == MetricRecord(evaluator.evaluation_category, Len(consumed) + 1,
                                        inputs_for_evaluator, predictions)
       IN  /\ consumed' = Append(consumed, [entity |-> inputs_for_evaluator,
                                            predictions |-> predictions])
           /\ dict_dict_results' =
                 AppendToBreakdowns(AppendToAll(dict_dict_results, dict_metrics),
                                    evaluator.breakdown_attributes, 1,
                                    inputs_for_evaluator, dict_metrics)
    /\ UNCHANGED <<evaluator, eval_pc, dict_summary, dataset, rerank_vars, metric_vars,
                   aux_vars>>

EvaluateInstance ==
    /\ Len(consumed) < MaxInstances
    /\ \E inputs_for_evaluator \in Entities, predictions \in Predictions :
          RecordInstance(inputs_for_evaluator, predictions)
    /\ UNCHANGED returned

\* lines 284-287: the dataset is exhausted, the groups are averaged
Summarise ==
    /\ eval_pc = "loop"
    /\ IF AveragingRaises(dict_dict_results)
       THEN /\ eval_pc' = "raised"
            /\ dict_summary' = NoSummary
       ELSE /\ eval_pc' = "done"
            /\ dict_summary' = macro_average_recursive(dict_dict_results)
    /\ UNCHANGED <<evaluator, consumed, dict_dict_results, dataset, rerank_vars,
                   metric_vars, aux_vars>>

EvaluateEnd ==
    /\ Summarise
    /\ UNCHANGED returned

NextEval == EvaluateBegin \/ EvaluateInstance \/ EvaluateEnd

SpecEval == InitEval /\ [][NextEval]_vars

\* lines 271-282: the groups after the loop has recorded the instances in order
RECURSIVE EvaluateAll(_, _)
EvaluateAll(ev, instances) ==
    IF instances = <<>> THEN DictSet(<<>>, "ALL", Leaf(<<>>))
    ELSE LET last == instances[Len(instances)]
             dict_metrics == MetricRecord(ev.evaluation_category, Len(instances),
                                          last.entity, last.predictions)
         IN  AppendToBreakdowns(
                 AppendToAll(EvaluateAll(ev, PySliceTo(instances, Len(instances) - 1)),
                             dict_metrics),
                 ev.breakdown_attributes, 1, last.entity, dict_metrics)

(* ------------------------------------------------------------------ *)
(* evaluate() called repeatedly on one evaluator and one dataset       *)
(* ------------------------------------------------------------------ *)
\* a dataset and what a deterministic predictor answers on each of its instances
Datasets ==
    UNION {[1..n -> [entity : Entities, predictions : Predictions]] : n \in 0..MaxDataset}

InitRepeat ==
    /\ AuxIdle
    /\ RerankIdle
    /\ MetricsIdle
    /\ evaluator \in [evaluation_category : EvaluationCategories,
                      breakdown_attributes : BreakdownAttributes]
    /\ dataset \in Datasets
    /\ returned = <<>>
    /\ eval_pc = "off"
    /\ consumed = <<>>
    /\ dict_dict_results = <<>>
    /\ dict_summary = NoSummary

\* lines 268-274: one more call of evaluate()
RepeatBegin ==
    /\ Len(returned) < MaxCalls
    /\ StartEvaluate
    /\ UNCHANGED returned

\* lines 275-282: the data loader yields the next instance of the dataset
RepeatInstance ==
    /\ Len(consumed) < Len(dataset)
    /\ RecordInstance(dataset[Len(consumed) + 1].entity,
                      dataset[Len(consumed) + 1].predictions)
    /\ UNCHANGED returned

\* lines 284-287: the data loader is exhausted; the call returns or raises
RepeatEnd ==
    /\ Len(consumed) = Len(dataset)
    /\ Summarise
    /\ returned' = Append(returned, IF eval_pc' = "raised" THEN Raised("KeyError")
                                    ELSE dict_summary')

NextRepeat == RepeatBegin \/ RepeatInstance \/ RepeatEnd

SpecRepeat == InitRepeat /\ [][NextRepeat]_vars

(* ------------------------------------------------------------------ *)
(* Properties of try_again_mechanism                                   *)
(* ------------------------------------------------------------------ *)
Returned == call # NoCall
NumCandidates == Len(call.keys)

\* the number of candidates that come before candidate i in a descending stable order
Rank(i) ==
    Cardinality({j \in 1..NumCandidates :
        call.sims[j] > call.sims[i] \/ (call.sims[j] = call.sims[i] /\ j < i)})

\* the positions of the candidate list that make up the working set W
WPositions == {i \in 1..NumCandidates : Rank(i) < call.top_k}
SenseOf(i) == lemma_key_to_synset_id(call.keys[i])
WSenses == {SenseOf(i) : i \in WPositions}

\* the last entry of W: the lowest score of W, on equal scores the later one
LastOfW == CHOOSE i \in WPositions : \A j \in WPositions : Rank(j) <= Rank(i)

LegacyDegenerate ==
    /\ Returned
    /\ NumCandidates >= 2
    /\ self.variant = "relation"
    /\ self.do_not_fix_synset_degeneration_bug
    /\ Cardinality(WSenses) = 1

\* try_again_similarity of a sense of W, by the variant of the re-ranker
TryAgainSimilarityOf(s) ==
    IF self.variant = "relation"
    THEN TryAgainSimilarity(self, wordnet, call.query, call.pos, WSenses, s)
    ELSE TryAgainSimilarityCSI(self, wordnet, call.query, s)

\* C1: a candidate list of length 1 comes back with the same keys and the same
\* scores, for both variants, every top_k and every flag setting, and no
\* collaborator (relation graph, CSI table, embeddings) is looked up.
C1_SingletonUnchanged ==
    (Returned /\ NumCandidates = 1) =>
        /\ ret.keys = call.keys
        /\ ret.sims = call.sims
        /\ consulted = {}

C1_Witness ==
    /\ Returned
    /\ NumCandidates = 1
    /\ self.variant = "relation"
    /\ self.do_not_fix_synset_degeneration_bug
    /\ call.top_k = 2
    /\ ret.sims = call.sims

\* C2: with two or more candidates and outside the legacy degenerate case, every
\* entry selected into W is returned with its own input score plus the try-again
\* similarity of the sense its key resolves to.
C2_AdjustedScoreInW ==
    (Returned /\ NumCandidates >= 2 /\ ~LegacyDegenerate) =>
        \A i \in WPositions :
            ret.sims[i] = call.sims[i] + TryAgainSimilarityOf(SenseOf(i))

C2_Witness ==
    /\ Returned
    /\ NumCandidates = 3
    /\ ~LegacyDegenerate
    /\ Cardinality(WPositions) = 2
    /\ \A i \in WPositions : TryAgainSimilarityOf(SenseOf(i)) # 0
    /\ \E i, j \in WPositions : ret.sims[i] - call.sims[i] # ret.sims[j] - call.sims[j]

\* C3: with two or more candidates, every entry that was not selected into W is
\* returned with the score it came in with.
C3_OutsideWUnchanged ==
    (Returned /\ NumCandidates >= 2) =>
        \A i \in (1..NumCandidates) \ WPositions : ret.sims[i] = call.sims[i]

C3_Witness ==
    /\ Returned
    /\ NumCandidates = 3
    /\ Cardinality(WPositions) = 2
    /\ 1 \notin WPositions
    /\ ret.sims[1] = call.sims[1]
    /\ \A i \in WPositions : ret.sims[i] # call.sims[i]

\* C4: every return hands back the input keys element by element, in the input
\* order, together with one score per key.
C4_KeysPreserved ==
    Returned =>
        /\ ret.keys = call.keys
        /\ Len(ret.sims) = Len(ret.keys)

C4_Witness ==
    /\ Returned
    /\ NumCandidates = 3
    /\ ret.keys = call.keys
    /\ ret.sims[1] < ret.sims[2]
    /\ ret.sims[2] < ret.sims[3]

\* C5: in the legacy degenerate case (relation walk, flag set, all of W one sense)
\* the keys come back unchanged, the last entry of W gets positive infinity added
\* and every other score is the input score.
C5_DegenerateBoost ==
    LegacyDegenerate =>
        /\ ret.keys = call.keys
        /\ \A i \in 1..NumCandidates :
              ret.sims[i] = IF i = LastOfW THEN FloatAdd(call.sims[i], Inf) ELSE call.sims[i]

C5_Witness ==
    /\ LegacyDegenerate
    /\ NumCandidates = 3
    /\ WPositions = {2, 3}
    /\ call.sims[2] = call.sims[3]
    /\ ret.sims[3] = Inf
    /\ ret.sims[2] = call.sims[2]

\* C6: in the legacy degenerate case the boosted candidate is the top prediction:
\* its returned score is strictly greater than every other returned score, also
\* when there are candidates outside W.
C6_BoostedIsTop ==
    LegacyDegenerate =>
        \A j \in (1..NumCandidates) \ {LastOfW} : ret.sims[LastOfW] > ret.sims[j]

C6_Witness ==
    /\ LegacyDegenerate
    /\ NumCandidates = 3
    /\ call.top_k = 1
    /\ WPositions = {2}
    /\ \A j \in {1, 3} : ret.sims[2] > ret.sims[j]

(* ------------------------------------------------------------------ *)
(* Properties of the metrics of BaseEvaluator                          *)
(* ------------------------------------------------------------------ *)
MetricsReturned == metric_ret # NoMetrics

\* the labels of a collection as a set: a bare string is one label
LabelSet(c) == IF c.is_str THEN {c.value[1]} ELSE {c.value[i] : i \in DOMAIN c.value}
GroundTruthSet == LabelSet(metric_call.ground_truthes)
PredictionSet == LabelSet(metric_call.predictions)
Hits == Cardinality(PredictionSet \cap GroundTruthSet)

\* the fraction x is the quotient n / d
IsQuotient(x, n, d) == x[2] > 0 /\ x[1] * d = n * x[2]
InUnitInterval(x) == x[2] > 0 /\ 0 <= x[1] /\ x[1] <= x[2]

\* C7: precision = |pred & gt| / |pred|, 0.0 for empty pred; recall =
\* |pred & gt| / |gt|, 0.0 for empty gt; f1 = 2PR/(P+R), 0.0 when P = R = 0; a
\* bare string is one label, duplicates and order do not count, and no input
\* divides by zero.
C7_PrecisionRecallF1 ==
    MetricsReturned =>
        /\ metric_ret # Raised("ZeroDivisionError")
        /\ IF PredictionSet = {} THEN metric_ret.precision = Zero
           ELSE IsQuotient(metric_ret.precision, Hits, Cardinality(PredictionSet))
        /\ IF GroundTruthSet = {} THEN metric_ret.recall = Zero
           ELSE IsQuotient(metric_ret.recall, Hits, Cardinality(GroundTruthSet))
        /\ LET P == metric_ret.precision
               R == metric_ret.recall
               F == metric_ret.f1_score
           IN  IF P[1] = 0 /\ R[1] = 0 THEN F = Zero
               ELSE /\ F[2] > 0
                    /\ F[1] * (P[1] * R[2] + R[1] * P[2]) = 2 * P[1] * R[1] * F[2]

C7_Witness ==
    /\ MetricsReturned
    /\ metric_call.ground_truthes.is_str
    /\ Len(metric_call.predictions.value) = 2
    /\ metric_ret.precision = <<1, 2>>
    /\ metric_ret.recall = One
    /\ metric_ret.f1_score = <<2, 3>>

\* C8: precision, recall, f1_score and accuracy all lie in [0,1]; accuracy is 1.0
\* exactly when pred and gt are the same set and 0.0 otherwise; when both are
\* empty accuracy is 1.0 while precision, recall and f1 are 0.0.
C8_UnitIntervalAndAccuracy ==
    MetricsReturned =>
        /\ metric_ret # Raised("ZeroDivisionError")
        /\ \A m \in MetricNames : InUnitInterval(metric_ret[m])
        /\ metric_ret.accuracy = IF PredictionSet = GroundTruthSet THEN One ELSE Zero
        /\ (PredictionSet = {} /\ GroundTruthSet = {}) =>
              /\ metric_ret.precision = Zero
              /\ metric_ret.recall = Zero
              /\ metric_ret.f1_score = Zero

C8_Witness ==
    /\ MetricsReturned
    /\ PredictionSet = {}
    /\ GroundTruthSet = {}
    /\ metric_ret.accuracy = One
    /\ metric_ret.f1_score = Zero

(* ------------------------------------------------------------------ *)
(* Properties of WSDTaskEvaluatorBase.evaluate                         *)
(* ------------------------------------------------------------------ *)
NumConsumed == Len(consumed)
AllRecords == dict_dict_results["ALL"].records

\* the key of an attribute set and the key of an entity's values under it
AttrKey(attrs) ==
    IF Len(attrs) = 1 THEN attrs[1] ELSE attrs[1] \o "|" \o attrs[2]
ValueKey(attrs, entity) ==
    IF Len(attrs) = 1 THEN entity[attrs[1]] ELSE entity[attrs[1]] \o "|" \o entity[attrs[2]]
GroupsOf(attrs) == dict_dict_results[AttrKey(attrs)].children

\* the instances (by position) whose values under attrs make the key v
Members(attrs, v) == {i \in 1..NumConsumed : ValueKey(attrs, consumed[i].entity) = v}

RECURSIVE SizeSum(_, _)
SizeSum(groups, keys) ==
    IF keys = {} THEN 0
    ELSE LET v == CHOOSE v \in keys : TRUE
         IN  Len(groups[v].records) + SizeSum(groups, keys \ {v})

Occurrences(lst, record) == Cardinality({p \in 1..Len(lst) : lst[p] = record})

\* C9: after n instances "ALL" holds n records, one per instance in evaluation
\* order; under every configured breakdown attribute set each record is in
\* exactly one group, the one keyed by the instance's values; the group sizes
\* under one attribute key sum to n, no breakdown group is empty, and the groups
\* hold the very records "ALL" holds.
C9_GroupsPartitionRecords ==
    (eval_pc # "off") =>
        /\ Len(AllRecords) = NumConsumed
        /\ \A i \in 1..NumConsumed :
              /\ AllRecords[i].obj = i
              /\ AllRecords[i].ground_truthes =
                    [d \in {consumed[i].entity.id} |-> consumed[i].entity.ground_truth_lemma_keys]
              /\ AllRecords[i].predictions =
                    [d \in {consumed[i].entity.id} |-> consumed[i].predictions]
        /\ DOMAIN dict_dict_results =
              {"ALL"} \cup (IF NumConsumed = 0 THEN {}
                            ELSE {AttrKey(evaluator.breakdown_attributes[a]) :
                                    a \in 1..Len(evaluator.breakdown_attributes)})
        /\ NumConsumed > 0 =>
              \A a \in 1..Len(evaluator.breakdown_attributes) :
                 LET attrs == evaluator.breakdown_attributes[a]
                     groups == GroupsOf(attrs)
                 IN  /\ \A i \in 1..NumConsumed :
                          /\ ValueKey(attrs, consumed[i].entity) \in DOMAIN groups
                          /\ \A v \in DOMAIN groups :
                                Occurrences(groups[v].records, AllRecords[i]) =
                                    IF v = ValueKey(attrs, consumed[i].entity) THEN 1 ELSE 0
                     /\ SizeSum(groups, DOMAIN groups) = NumConsumed
                     /\ \A v \in DOMAIN groups : groups[v].records # <<>>

C9_Witness ==
    /\ eval_pc = "loop"
    /\ NumConsumed = 3
    /\ Len(evaluator.breakdown_attributes) = 3
    /\ "corpus_id|pos_orig" \in DOMAIN dict_dict_results
    /\ DOMAIN dict_dict_results["corpus_id|pos_orig"].children = {"X|n", "Y|n"}
    /\ Len(dict_dict_results["corpus_id|pos_orig"].children["X|n"].records) = 2
    /\ DOMAIN dict_dict_results["pos_orig"].children = {"n"}

\* a metric value on the common denominator 60 of the model's fractions
Scaled(x) == (x[1] * 60) \div x[2]

RECURSIVE ScaledSum(_, _)
ScaledSum(metric, positions) ==
    IF positions = {} THEN 0
    ELSE LET i == CHOOSE i \in positions : TRUE
         IN  Scaled(AllRecords[i][metric]) + ScaledSum(metric, positions \ {i})

\* reported is the arithmetic mean of the metric over the records at positions
IsMeanOver(reported, metric, positions) ==
    /\ positions # {}
    /\ \A i \in positions : 60 % AllRecords[i][metric][2] = 0
    /\ reported[2] > 0
    /\ reported[1] * 60 * Cardinality(positions) = ScaledSum(metric, positions) * reported[2]

\* C10: for every non-empty group the reported precision, recall, f1_score and
\* accuracy are the arithmetic means of the metric over the records of that group
\* alone.
C10_NaiveMacroAverage ==
    (eval_pc = "done") =>
        /\ \A m \in MetricNames :
              IsMeanOver(dict_summary["ALL"][m], m, 1..NumConsumed)
        /\ \A a \in 1..Len(evaluator.breakdown_attributes) :
              LET attrs == evaluator.breakdown_attributes[a]
              IN  \A v \in DOMAIN GroupsOf(attrs) : \A m \in MetricNames :
                     IsMeanOver(dict_summary[AttrKey(attrs)][v][m], m, Members(attrs, v))

C10_Witness ==
    /\ eval_pc = "done"
    /\ NumConsumed = 3
    /\ "corpus_id" \in DOMAIN dict_summary
    /\ DOMAIN dict_summary["corpus_id"] = {"X", "Y"}
    /\ \E i, j \in Members(<<"corpus_id">>, "X") :
          /\ \A m \in MetricNames : AllRecords[i][m] = One
          /\ \A m \in MetricNames : AllRecords[j][m] = Zero
    /\ \A m \in MetricNames : dict_summary["corpus_id"]["X"][m] = <<1, 2>>
    /\ \A m \in MetricNames : dict_summary["corpus_id"]["Y"][m] = One

\* the groups of the summary, each with the positions of the instances it holds
EvalGroups ==
    {[name |-> <<"ALL">>, summary |-> dict_summary["ALL"], members |-> 1..NumConsumed]}
    \cup UNION {{[name |-> <<AttrKey(evaluator.breakdown_attributes[a]), v>>,
                  summary |-> dict_summary[AttrKey(evaluator.breakdown_attributes[a])][v],
                  members |-> Members(evaluator.breakdown_attributes[a], v)] :
                    v \in DOMAIN GroupsOf(evaluator.breakdown_attributes[a])} :
                 a \in 1..Len(evaluator.breakdown_attributes)}

\* C11: in every non-empty group recall_by_raganato is the mean precision of the
\* group (not its mean recall), and f1_score_by_raganato is the harmonic mean of
\* the mean precision and recall_by_raganato, hence the mean precision again, 0.0
\* when the mean precision is 0.
C11_RaganatoRecallIsPrecision ==
    (eval_pc = "done") =>
        \A g \in EvalGroups :
           LET P == g.summary.precision
               R == g.summary.recall_by_raganato
               F == g.summary.f1_score_by_raganato
           IN  /\ IsMeanOver(R, "precision", g.members)
               /\ R = P
               /\ IF P[1] = 0 THEN F = Zero
                  ELSE /\ F[2] > 0
                       /\ F[1] * (P[1] * R[2] + R[1] * P[2]) = 2 * P[1] * R[1] * F[2]
               /\ F = P

C11_Witness ==
    /\ eval_pc = "done"
    /\ \E g \in EvalGroups :
          /\ g.summary.precision = <<1, 2>>
          /\ g.summary.recall = <<1, 4>>
          /\ g.summary.recall_by_raganato = <<1, 2>>
          /\ g.summary.f1_score_by_raganato = <<1, 2>>

\* the instance ids of the records at positions, and for an id the record that
\* was made last
GroupIds(positions) == {consumed[i].entity.id : i \in positions}
LastOf(positions, id) ==
    CHOOSE i \in positions :
        /\ consumed[i].entity.id = id
        /\ \A j \in positions : consumed[j].entity.id = id => j <= i
GroupGold(positions, id) == Range(consumed[LastOf(positions, id)].entity.ground_truth_lemma_keys)
GroupPred(positions, id) == Range(consumed[LastOf(positions, id)].predictions)
GroupSenses(positions) == UNION {GroupGold(positions, id) : id \in GroupIds(positions)}
SenseIds(positions, sense) == {id \in GroupIds(positions) : sense \in GroupGold(positions, id)}
SenseAnswered(positions, sense) ==
    {id \in SenseIds(positions, sense) : GroupPred(positions, id) # {}}
SenseHits(positions, sense) ==
    {id \in SenseIds(positions, sense) : sense \in GroupPred(positions, id)}

\* the score of one gold sense on the common denominator 60
ScaledSenseScore(positions, sense, metric) ==
    LET hits == Cardinality(SenseHits(positions, sense))
        prec == IF SenseAnswered(positions, sense) = {} THEN 0
                ELSE (60 * hits) \div Cardinality(SenseAnswered(positions, sense))
        rec == (60 * hits) \div Cardinality(SenseIds(positions, sense))
    IN  CASE metric = "precision" -> prec
          [] metric = "recall" -> rec
          [] OTHER -> IF prec + rec = 0 THEN 0 ELSE (2 * prec * rec) \div (prec + rec)

RECURSIVE ScaledSenseSum(_, _, _)
ScaledSenseSum(positions, senses, metric) ==
    IF senses = {} THEN 0
    ELSE LET sense == CHOOSE sense \in senses : TRUE
         IN  ScaledSenseScore(positions, sense, metric)
                + ScaledSenseSum(positions, senses \ {sense}, metric)

\* reported is the uniform mean over the gold senses of the per-sense score
IsSenseMean(reported, positions, metric) ==
    /\ reported[2] > 0
    /\ reported[1] * 60 * Cardinality(GroupSenses(positions)) =
          ScaledSenseSum(positions, GroupSenses(positions), metric) * reported[2]

\* C12: in every group macro_precision/recall/f1_score_by_maru are computed from
\* the maps instance id -> predictions and instance id -> ground truths pooled
\* over that group's records alone: instances are grouped by gold sense, each
\* gold sense is scored from the predictions of its instances and the per-sense
\* scores are averaged uniformly, whatever the number of instances of a sense and
\* whatever the naive per-instance averages are.
C12_SenseLevelMacro ==
    (eval_pc = "done") =>
        \A g \in EvalGroups :
           /\ IsSenseMean(g.summary.macro_precision_by_maru, g.members, "precision")
           /\ IsSenseMean(g.summary.macro_recall_by_maru, g.members, "recall")
           /\ IsSenseMean(g.summary.macro_f1_score_by_maru, g.members, "f1_score")

C12_Witness ==
    /\ eval_pc = "done"
    /\ NumConsumed = 3
    /\ \E g \in EvalGroups :
          /\ g.name = <<"ALL">>
          /\ Cardinality(SenseIds(g.members, "k1")) = 2
          /\ Cardinality(SenseIds(g.members, "k3")) = 1
          /\ g.summary.f1_score = <<2, 3>>
          /\ g.summary.macro_f1_score_by_maru = <<1, 3>>
          /\ g.summary.macro_precision_by_maru = <<1, 3>>
          /\ g.summary.macro_recall_by_maru = <<1, 3>>

\* C13: a second evaluate() on the same evaluator, with the same dataset and a
\* deterministic predictor, returns a summary identical to the first; each call
\* starts from empty groups and counts no record of an earlier call.
C13_RepeatedEvaluateAgrees ==
    /\ \A i, j \in 1..Len(returned) : returned[i] = returned[j]
    /\ (eval_pc # "off") =>
          /\ Len(AllRecords) = NumConsumed
          /\ NumConsumed = 0 => DOMAIN dict_dict_results = {"ALL"}
          /\ \A i \in 1..NumConsumed :
                AllRecords[i].predictions =
                    [d \in {dataset[i].entity.id} |-> dataset[i].predictions]

C13_Witness ==
    /\ Len(returned) = 2
    /\ Len(dataset) = 2
    /\ eval_pc = "done"
    /\ returned[2] = dict_summary
    /\ returned[1] = dict_summary
    /\ "corpus_id" \in DOMAIN dict_summary
    /\ DOMAIN dict_summary["corpus_id"] = {"X", "Y"}

\* the instances recorded in the order perm
Shuffled(perm) == [i \in 1..NumConsumed |-> consumed[perm[i]]]

\* the record lists of all groups of results, by group name
GroupLists(results) ==
    {[name |-> <<"ALL">>, records |-> results["ALL"].records]}
    \cup UNION {{[name |-> <<key, v>>, records |-> results[key].children[v].records] :
                    v \in DOMAIN results[key].children} :
                 key \in DOMAIN results \ {"ALL"}}

\* what a group's summary is made of: the naive averages and the pooled maps
NaiveOf(records) == macro_average(records)
PooledOf(records) ==
    [predictions |-> PoolRecords(records, "predictions"),
     ground_truthes |-> PoolRecords(records, "ground_truthes")]

NaiveByGroup(results) ==
    {[name |-> g.name, naive |-> NaiveOf(g.records)] : g \in GroupLists(results)}
PooledByGroup(results) ==
    {[name |-> g.name, pooled |-> PooledOf(g.records)] : g \in GroupLists(results)}

\* C14: recording the instances in any other order leaves every group's naive
\* averaged metrics and its two pooled maps (instance id -> predictions, instance
\* id -> ground truths) unchanged, for every sequence of records, also one in
\* which records repeat an instance id.
C14_OrderInsensitive ==
    (eval_pc = "done") =>
        \A perm \in Permutations(1..NumConsumed) :
           LET results == EvaluateAll(evaluator, Shuffled(perm))
           IN  /\ NaiveByGroup(results) = NaiveByGroup(dict_dict_results)
               /\ PooledByGroup(results) = PooledByGroup(dict_dict_results)

(* ------------------------------------------------------------------ *)
(* Properties of try_again_mechanism when a collaborator fails         *)
(* ------------------------------------------------------------------ *)
\* the call reached the broken collaborator
ReachedBroken == Returned /\ wordnet.broken \in consulted

ConstructedCSI ==
    /\ ctor.class = "TryAgainMechanismWithCoarseSenseInventory"
    /\ built # NotBuilt
    /\ built.loaded

CsiFile == ctor.path_coarse_sense_inventory
SenseIdOfLine(i) == synset_offset_to_synset_id(CsiFile[i][1])
HasDuplicateSenseId ==
    \E i, j \in 1..Len(CsiFile) : i # j /\ SenseIdOfLine(i) = SenseIdOfLine(j)
HasShortLine == \E i \in 1..Len(CsiFile) : Len(CsiFile[i]) < 2

IsLabel(field) == field # ""
LabelsOfLine(i) == SelectSeq(Tail(CsiFile[i]), IsLabel)

\* C16: loading a CSI table fails, no table is returned and the construction of
\* the CSI re-ranker aborts, whenever two lines translate to the same sense id or
\* a line has fewer than two tab-separated fields; on success every sense id of
\* the file maps to exactly the labels of its one line, and label l maps to sense
\* s exactly when l is among the labels of s.
C16_CsiLoad ==
    ConstructedCSI =>
        /\ (HasDuplicateSenseId \/ HasShortLine) =>
              (built.status = "raised" /\ built.error = "AssertionError")
        /\ (built.status = "ok") =>
              LET labels == built.object.dict_synset_id_to_csi_labels
                  synsets == built.object.dict_csi_label_to_synsets
              IN  /\ DOMAIN labels = {SenseIdOfLine(i) : i \in 1..Len(CsiFile)}
                  /\ \A i \in 1..Len(CsiFile) : labels[SenseIdOfLine(i)] = LabelsOfLine(i)
                  /\ \A l \in CsiLabels, sid \in Synsets :
                        (l \in DOMAIN synsets /\ sid \in synsets[l])
                            <=> (sid \in DOMAIN labels /\ l \in Range(labels[sid]))

C16_Witness ==
    /\ ConstructedCSI
    /\ Len(CsiFile) = 2
    /\ CsiFile[1] = <<"o1", "ART">>
    /\ CsiFile[2] = <<"o1b", "FOOD">>
    /\ built.status = "raised"
    /\ ~in_use

InvalidConstruction ==
    \/ /\ ctor.class \in {"TryAgainMechanism", "TryAgainMechanismWithCoarseSenseInventory"}
       /\ ctor.similarity_metric \notin {"cosine", "dot"}
    \/ /\ ctor.class = "WSDTaskEvaluatorBase"
       /\ ctor.evaluation_category \notin {"lemma", "lexname"}

\* C17: constructing either re-ranker with a similarity metric other than
\* "cosine" or "dot" fails at construction, for the CSI variant before the table
\* is loaded, and constructing the evaluator with an evaluation category other
\* than "lemma" or "lexname" fails at construction; no such object exists or is
\* used.
C17_InvalidConfigurationFails ==
    /\ (built # NotBuilt /\ InvalidConstruction) =>
          /\ built.status = "raised"
          /\ ~built.loaded
    /\ in_use => (built.status = "ok" /\ ~InvalidConstruction)

C17_Witness ==
    /\ ctor.class = "TryAgainMechanismWithCoarseSenseInventory"
    /\ ctor.similarity_metric = "euclidean"
    /\ ctor.path_coarse_sense_inventory = <<<<"o1", "ART">>>>
    /\ built.status = "raised"
    /\ built.error = "ValueError"
    /\ ~built.loaded

(* ------------------------------------------------------------------ *)
(* C18: the unknown-lemma policy of the entity generator               *)
(* ------------------------------------------------------------------ *)
Iterating == iter_pc # "idle"
EntityAt(i) == wsd_dataset.entities[i]
NumEntities == Len(wsd_dataset.entities)
Examined == 1..(position - 1)
UnknownLemma(i) == ~EntityAt(i).lemma_known
YieldedEntities == [k \in 1..Len(yielded) |-> yielded[k].entity]
YieldedSet == {yielded[k].entity : k \in 1..Len(yielded)}
WarnedOf(message) ==
    {warned[k].entity : k \in {j \in 1..Len(warned) : warned[j].message = message}}
InOriginalOrder ==
    \A j, k \in 1..Len(yielded) : j < k => yielded[j].entity < yielded[k].entity
Finished == iter_pc \in {"exhausted", "raised"}
WithoutAncestor(i) ==
    /\ wsd_dataset.n_ancestor_hop_of_ground_truth_synset > 0
    /\ EntityAt(i).ancestors = <<>>
SenseAmbiguous(i) == Len(EntityAt(i).synset_ids) # 1

\* C18 as stated: with raise_error_on_unknown_lemma true an entity of unknown
\* lemma raises and ends the iteration; with the flag false each such entity
\* is warned about and skipped, and every entity of known lemma is yielded, in
\* the original order.
C18_UnknownLemmaPolicy ==
    Iterating =>
        /\ wsd_dataset.raise_error_on_unknown_lemma =>
              /\ \A i \in Examined : ~UnknownLemma(i)
              /\ (iter_pc = "raised" /\ UnknownLemma(position)) => iter_error = "ValueError"
        /\ ~wsd_dataset.raise_error_on_unknown_lemma =>
              /\ \A i \in Examined :
                    UnknownLemma(i) => /\ i \in WarnedOf("unknown lemma detected")
                                       /\ i \notin YieldedSet
              /\ \A i \in Examined : ~UnknownLemma(i) => i \in YieldedSet
              /\ Finished =>
                    \A i \in 1..NumEntities : ~UnknownLemma(i) => i \in YieldedSet
              /\ InOriginalOrder

Yieldable(i) == ~UnknownLemma(i) /\ ~WithoutAncestor(i)

\* C18, amended: the unknown-lemma policy is as stated; the entities yielded
\* are, in the original order, the examined entities of known lemma except
\* those whose synset has no ancestor when n_ancestor_hop_of_ground_truth_synset
\* is positive (skipped with a warning of their own); the iteration ends early
\* only by the ValueError of an unknown lemma under the flag or by the
\* AssertionError of a known lemma with more than one synset.
C18_UnknownLemmaPolicyAmended ==
    Iterating =>
        /\ wsd_dataset.raise_error_on_unknown_lemma =>
              \A i \in Examined : ~UnknownLemma(i)
        /\ WarnedOf("unknown lemma detected") = {i \in Examined : UnknownLemma(i)}
        /\ WarnedOf("failed to lookup ancestor synset") =
              {i \in Examined : ~UnknownLemma(i) /\ WithoutAncestor(i)}
        /\ YieldedEntities =
              SelectSeq([i \in Examined |-> i], LAMBDA i : Yieldable(i))
        /\ \A i \in Examined : ~UnknownLemma(i) => ~SenseAmbiguous(i)
        /\ iter_pc = "exhausted" => position = NumEntities + 1
        /\ iter_pc = "raised" =>
              /\ position <= NumEntities
              /\ \/ /\ UnknownLemma(position)
                    /\ wsd_dataset.raise_error_on_unknown_lemma
                    /\ iter_error = "ValueError"
                 \/ /\ ~UnknownLemma(position)
                    /\ SenseAmbiguous(position)
                    /\ iter_error = "AssertionError"
        /\ iter_pc # "raised" => iter_error = "none"

C18_Witness ==
    /\ iter_pc = "exhausted"
    /\ ~wsd_dataset.raise_error_on_unknown_lemma
    /\ wsd_dataset.n_ancestor_hop_of_ground_truth_synset > 0
    /\ \E i, j, k \in 1..NumEntities :
          /\ i < k /\ j < k
          /\ UnknownLemma(i)
          /\ ~UnknownLemma(j) /\ WithoutAncestor(j)
          /\ YieldedEntities = <<k>>

(* ------------------------------------------------------------------ *)
(* C19: the working set                                                *)
(* ------------------------------------------------------------------ *)
WorkingSet == TopK(call.keys, call.sims, call.top_k)
InputIndex(pair) == ListIndex(call.keys, pair[1])
Ranked == call # NoCall /\ Len(call.keys) >= 2

\* C19: W holds min(top_k, n) of the n candidates, each with its input score;
\* no candidate outside W scores higher than one inside; W is in descending
\* order of score; of two candidates of equal score the earlier of the input is
\* selected first and stands first in W; a call that leaves out
\* top_k_candidates works with 2.
C19_WorkingSet ==
    Ranked =>
        LET W == WorkingSet
            at == [r \in 1..Len(W) |-> InputIndex(W[r])]
            inside == {at[r] : r \in 1..Len(W)}
            outside == (1..Len(call.keys)) \ inside
        IN  /\ Len(W) = Min2(call.top_k, Len(call.keys))
            /\ \A r \in 1..Len(W) :
                  /\ W[r][1] \in Range(call.keys)
                  /\ W[r][2] = call.sims[at[r]]
            /\ Cardinality(inside) = Len(W)
            /\ \A i \in inside, j \in outside :
                  /\ call.sims[j] <= call.sims[i]
                  /\ call.sims[j] = call.sims[i] => i < j
            /\ \A q, r \in 1..Len(W) :
                  q < r => /\ W[q][2] >= W[r][2]
                           /\ W[q][2] = W[r][2] => at[q] < at[r]
            /\ ~call.top_k_given => call.top_k = 2

C19_Witness ==
    /\ Ranked
    /\ ~call.top_k_given
    /\ call.sims = <<2, 4, 2>>
    /\ WorkingSet = <<<<call.keys[2], 4>>, <<call.keys[1], 2>>>>
    /\ ret.keys = call.keys

(* ------------------------------------------------------------------ *)
(* C20: one sense in W outside the legacy case                         *)
(* ------------------------------------------------------------------ *)
Addend(i) == ret.sims[i] - call.sims[i]
ExpansionLookup ==
    IF self.variant = "relation" THEN "gloss_extend" ELSE "synset_id_to_csi_labels"
OneSenseInW == Returned /\ NumCandidates >= 2 /\ Cardinality(WSenses) = 1

Expanded == Returned /\ dict_try_again_synsets # <<>>
ExpandedSenses == DOMAIN dict_try_again_synsets

\* C21: for every candidate sense s of W, try_again_similarity(s) is the largest
\* of the similarities accumulated over the synsets of E(s) that were not
\* skipped; it is 0 when none was accumulated (E(s) empty or every member
\* skipped), and then the keys of s come back with their input scores.
C21_TryAgainSimilarityIsMax ==
    Expanded =>
        /\ ExpandedSenses = WSenses
        /\ \A s \in ExpandedSenses :
              LET e == dict_try_again_synsets[s]
                  accumulated == e.lst_try_again_similarities
              IN  /\ e.used \subseteq e.try_again_synsets
                  /\ (accumulated = {}) <=> (e.used = {})
                  /\ accumulated # {} =>
                        /\ e.try_again_similarity \in accumulated
                        /\ \A x \in accumulated : x <= e.try_again_similarity
                  /\ accumulated = {} =>
                        /\ e.try_again_similarity = 0
                        /\ \A i \in 1..NumCandidates :
                              SenseOf(i) = s => ret.sims[i] = call.sims[i]
                  /\ \A i \in WPositions :
                        SenseOf(i) = s => ret.sims[i] = call.sims[i] + e.try_again_similarity

C21_Witness ==
    /\ Expanded
    /\ \E s, t \in ExpandedSenses :
          /\ dict_try_again_synsets[s].try_again_synsets # {}
          /\ dict_try_again_synsets[s].lst_try_again_similarities = {}
          /\ dict_try_again_synsets[t].try_again_similarity < 0
          /\ \E i \in WPositions : SenseOf(i) = s /\ ret.sims[i] = call.sims[i]
          /\ \E i \in WPositions : SenseOf(i) = t /\ ret.sims[i] < call.sims[i]

(* ------------------------------------------------------------------ *)
(* C22: the common related synsets                                     *)
(* ------------------------------------------------------------------ *)
ExpandedByRelation == Expanded /\ self.variant = "relation"
RelatedToEvery == {x \in Synsets : \A s \in WSenses : x \in wordnet.related[s]}
SubtractionApplies ==
    self.exclude_common_semantically_related_synsets /\ Cardinality(WSenses) > 1

\* C22: with exclude_common_semantically_related_synsets true and more than one
\* candidate sense in W, what is taken out of each E(s) is exactly the set of
\* synsets that are in the relation set of every candidate, and right after it
\* no synset is in all E(s); with the flag false or one candidate sense nothing
\* is taken out.
C22_CommonSubtracted ==
    ExpandedByRelation =>
        /\ \A s \in ExpandedSenses :
              dict_try_again_synsets[s].related = wordnet.related[s]
        /\ SubtractionApplies =>
              /\ \A s \in ExpandedSenses :
                    LET e == dict_try_again_synsets[s]
                    IN  /\ e.after_subtraction \subseteq e.related
                        /\ e.related \ e.after_subtraction = RelatedToEvery
              /\ ~\E x \in Synsets :
                    \A s \in ExpandedSenses : x \in dict_try_again_synsets[s].after_subtraction
        /\ ~SubtractionApplies =>
              \A s \in ExpandedSenses :
                  dict_try_again_synsets[s].after_subtraction = dict_try_again_synsets[s].related

C22_Witness ==
    /\ ExpandedByRelation
    /\ SubtractionApplies
    /\ RelatedToEvery # {}
    /\ \E s \in ExpandedSenses : dict_try_again_synsets[s].after_subtraction # {}

(* ------------------------------------------------------------------ *)
(* C23: a synset related to every candidate                            *)
(* ------------------------------------------------------------------ *)
\* C23 as stated: under the flag and with more than one candidate sense in W, a
\* synset related to every candidate sense is in no expansion set and is used
\* for the try-again similarity of no candidate.
C23_CommonNeverUsed ==
    (ExpandedByRelation /\ SubtractionApplies) =>
        \A x \in RelatedToEvery, s \in ExpandedSenses :
            /\ x \notin dict_try_again_synsets[s].try_again_synsets
            /\ x \notin dict_try_again_synsets[s].used

LexnamesOfW == {wordnet.lexname[s] : s \in WSenses}

\* C23, amended: such a synset is taken out of the relation set of every
\* candidate; it is used for the try-again similarity of a candidate s only
\* when the candidate senses of W differ in lexname and the synset has the
\* lexname of s, the lexname union bringing it back into E(s).
C23_CommonUsedOnlyByLexname ==
    (ExpandedByRelation /\ SubtractionApplies) =>
        \A x \in RelatedToEvery, s \in ExpandedSenses :
            LET e == dict_try_again_synsets[s]
            IN  /\ x \notin e.after_subtraction
                /\ x \in e.try_again_synsets <=>
                      (Cardinality(LexnamesOfW) > 1 /\ wordnet.lexname[x] = wordnet.lexname[s])
                /\ x \in e.used => x \in e.try_again_synsets

C23_Witness ==
    /\ ExpandedByRelation
    /\ SubtractionApplies
    /\ \E x \in RelatedToEvery, s, t \in ExpandedSenses :
          /\ x \in dict_try_again_synsets[s].used
          /\ x \notin dict_try_again_synsets[t].try_again_synsets

(* ------------------------------------------------------------------ *)
(* C24: the lexname union                                              *)
(* ------------------------------------------------------------------ *)
SameLexnameSenses(s) == {x \in Synsets : wordnet.lexname[x] = wordnet.lexname[s]}

\* C24: the synsets of lexname(s) are united into E(s), for every candidate
\* sense s of W, exactly when the candidate senses of W have two or more
\* lexnames, and into no E(s) when they share one; the union follows the
\* subtraction of the common synsets, so a synset it brings in stays in E(s).
C24_LexnameUnion ==
    ExpandedByRelation =>
        \A s \in ExpandedSenses :
            LET e == dict_try_again_synsets[s]
            IN  /\ Cardinality(LexnamesOfW) >= 2 =>
                      /\ e.try_again_synsets = e.after_subtraction \cup SameLexnameSenses(s)
                      /\ SameLexnameSenses(s) \subseteq e.try_again_synsets
                /\ Cardinality(LexnamesOfW) < 2 =>
                      e.try_again_synsets = e.after_subtraction

C24_Witness ==
    /\ ExpandedByRelation
    /\ SubtractionApplies
    /\ Cardinality(LexnamesOfW) = 2
    /\ \E s \in ExpandedSenses :
          /\ SameLexnameSenses(s) \cap RelatedToEvery # {}
          /\ ~(SameLexnameSenses(s) \subseteq wordnet.related[s])
          /\ dict_try_again_synsets[s].after_subtraction # {}

(* ------------------------------------------------------------------ *)
(* C25: candidate senses in the expansion sets                         *)
(* ------------------------------------------------------------------ *)
SkipApplies ==
    self.exclude_oneselves_for_noun_and_verb /\ call.pos \in {"n", "v"}

\* C25: with exclude_oneselves_for_noun_and_verb true and a noun or a verb, no
\* candidate sense of W (s itself or another candidate) adds a similarity to the
\* try-again score of any candidate, and every other synset of E(s) does; with
\* the flag false or another part of speech every synset of E(s) adds its
\* similarities, the candidate senses among them too.
C25_CandidatesSkipped ==
    ExpandedByRelation =>
        \A s \in ExpandedSenses :
            LET e == dict_try_again_synsets[s]
            IN  /\ SkipApplies => /\ e.used \cap WSenses = {}
                                  /\ e.used = e.try_again_synsets \ WSenses
                /\ ~SkipApplies => e.used = e.try_again_synsets
                /\ e.lst_try_again_similarities =
                      UNION {SynsetSimilarities(self, call.query, r) : r \in e.used}

C25_Witness ==
    /\ ExpandedByRelation
    /\ self.exclude_oneselves_for_noun_and_verb
    /\ call.pos = "v"
    /\ \E s, t \in ExpandedSenses :
          /\ s # t
          /\ {s, t} \subseteq dict_try_again_synsets[s].try_again_synsets
          /\ dict_try_again_synsets[s].used # {}

(* ------------------------------------------------------------------ *)
(* C26: the expansion sets of the CSI variant                          *)
(* ------------------------------------------------------------------ *)
ExpandedByCSI == Expanded /\ self.variant = "csi"
HasCsiEntry(s) == s \in DOMAIN wordnet.csi
SharesCsiLabel(x, s) == Range(wordnet.csi[x]) \cap Range(wordnet.csi[s]) # {}

\* C26: in the CSI variant E(s) is the set of the senses of the loaded table
\* that share a coarse-sense label with s, s itself among them when it has an
\* entry and whatever the part of speech, and all of them are used; for a sense
\* without an entry E(s) is empty and its keys come back with original + 0.
C26_CsiExpansion ==
    ExpandedByCSI =>
        \A s \in ExpandedSenses :
            LET e == dict_try_again_synsets[s]
            IN  /\ e.used = e.try_again_synsets
                /\ HasCsiEntry(s) =>
                      /\ e.try_again_synsets =
                            {x \in DOMAIN wordnet.csi : SharesCsiLabel(x, s)}
                      /\ s \in e.used
                /\ ~HasCsiEntry(s) =>
                      /\ e.try_again_synsets = {}
                      /\ e.try_again_similarity = 0
                      /\ \A i \in WPositions :
                            SenseOf(i) = s => ret.sims[i] = call.sims[i]

C26_Witness ==
    /\ ExpandedByCSI
    /\ call.pos = "n"
    /\ \E s, t \in ExpandedSenses :
          /\ HasCsiEntry(s)
          /\ Cardinality(dict_try_again_synsets[s].try_again_synsets) >= 2
          /\ ~HasCsiEntry(t)
          /\ \E i \in WPositions : SenseOf(i) = t /\ ret.sims[i] = call.sims[i]

(* ------------------------------------------------------------------ *)
(* C27: the summary has the key tree of the groups                     *)
(* ------------------------------------------------------------------ *)
Summarised == eval_pc = "done"
ListKeys == {k \in DOMAIN dict_dict_results : dict_dict_results[k].leaf}
MappingKeys == DOMAIN dict_dict_results \ ListKeys
IsAverageOf(summary, records) ==
    /\ MetricNames \subseteq DOMAIN summary
    /\ summary = macro_average_by_raganato(records)

\* C27: the summary has the keys of the groups at every level: a list of
\* records is replaced under its key path by the averages of that list alone, a
\* nested mapping by the mapping of the averages of its lists; no group is
\* merged with another, dropped or given another key, so the groups of
\* different attribute sets are under different top-level keys as they were.
C27_KeyTreePreserved ==
    Summarised =>
        /\ DOMAIN dict_summary = DOMAIN dict_dict_results
        /\ \A k \in ListKeys : IsAverageOf(dict_summary[k], dict_dict_results[k].records)
        /\ \A k \in MappingKeys :
              /\ DOMAIN dict_summary[k] = DOMAIN dict_dict_results[k].children
              /\ \A v \in DOMAIN dict_dict_results[k].children :
                    /\ dict_dict_results[k].children[v].leaf
                    /\ IsAverageOf(dict_summary[k][v],
                                   dict_dict_results[k].children[v].records)

C27_Witness ==
    /\ Summarised
    /\ Cardinality(MappingKeys) = 3
    /\ DOMAIN dict_summary["corpus_id"] = {"X", "Y"}
    /\ DOMAIN dict_summary["pos_orig"] = {"n", "v"}
    /\ dict_summary["corpus_id"]["X"] # dict_summary["corpus_id"]["Y"]
    /\ dict_summary["corpus_id"]["X"] # dict_summary["ALL"]

(* ------------------------------------------------------------------ *)
(* C28: the collaborators are left as they were                        *)
(* ------------------------------------------------------------------ *)
FromLoaded ==
    IF self.variant = "relation"
    THEN TryAgainMechanism(self, wordnet_loaded, call)
    ELSE TryAgainMechanismCSI(self, wordnet_loaded, call)

ComparedSet(labels) ==
    IF evaluator.evaluation_category = "lexname"
    THEN {TwoLexnames[lemma_key_to_synset_id(labels[i])] : i \in 1..Len(labels)}
    ELSE Range(labels)

MetricsComeFrom(r, ground_truthes, predictions) ==
    LET gt == ComparedSet(ground_truthes)
        pred == ComparedSet(predictions)
        hits == Cardinality(gt \cap pred)
    IN  /\ r.accuracy = IF gt = pred THEN One ELSE Zero
        /\ r.precision = IF pred = {} THEN Zero ELSE Ratio(hits, Cardinality(pred))
        /\ r.recall = IF gt = {} THEN Zero ELSE Ratio(hits, Cardinality(gt))
        /\ r.f1_score = calc_f1_score(r.precision, r.recall)

\* C29: every record has two maps of one key, the instance id, holding the
\* instance's predictions and its ground truths; the record's precision,
\* recall, f1_score and accuracy are those that compute_metrics of the
\* evaluator's category ("lemma" or "lexname") gives for these labels; and the
\* averaging leaves the groups and their records as the loop built them.
C29_SideChannelMaps ==
    (eval_pc # "off") =>
        /\ \A i \in 1..Len(AllRecords) :
              LET r == AllRecords[i]
                  instance_id == consumed[i].entity.id
              IN  /\ DOMAIN r.predictions = {instance_id}
                  /\ DOMAIN r.ground_truthes = {instance_id}
                  /\ r.predictions[instance_id] = consumed[i].predictions
                  /\ r.ground_truthes[instance_id] = consumed[i].entity.ground_truth_lemma_keys
                  /\ MetricsComeFrom(r, r.ground_truthes[instance_id],
                                     r.predictions[instance_id])
        /\ Summarised => dict_dict_results = EvaluateAll(evaluator, consumed)

C29_Witness ==
    /\ Summarised
    /\ evaluator.evaluation_category = "lexname"
    /\ \E i \in 1..Len(AllRecords) :
          /\ AllRecords[i].ground_truthes = [d \in {"d1"} |-> <<"k1">>]
          /\ AllRecords[i].predictions = [d \in {"d1"} |-> <<"k2">>]
          /\ AllRecords[i].precision = One
    /\ \E i \in 1..Len(AllRecords) : AllRecords[i].accuracy = Zero

(* ------------------------------------------------------------------ *)
(* C30: evaluate() on a dataset without instances                      *)
(* ------------------------------------------------------------------ *)
EvaluateEnded == eval_pc \in {"done", "raised"}

\* C30: evaluate() over no instance returns no summary: "ALL" is there and is
\* empty, its plain average has no "precision" for line 127 to read, and the
\* call ends in that error; with one instance or more it returns the summary.
\* No group other than "ALL" is ever empty.
C30_EmptyDatasetRaises ==
    /\ EvaluateEnded =>
          /\ (eval_pc = "raised") <=> (NumConsumed = 0)
          /\ eval_pc = "raised" =>
                /\ DOMAIN dict_dict_results = {"ALL"}
                /\ AllRecords = <<>>
                /\ "precision" \notin DOMAIN macro_average(AllRecords)
                /\ dict_summary = NoSummary
          /\ eval_pc = "done" =>
                /\ AllRecords # <<>>
                /\ \A m \in MetricNames : m \in DOMAIN dict_summary["ALL"]
    /\ (eval_pc # "off") =>
          \A k \in MappingKeys :
              /\ DOMAIN dict_dict_results[k].children # {}
              /\ \A v \in DOMAIN dict_dict_results[k].children :
                    dict_dict_results[k].children[v].records # <<>>

C30_Witness ==
    /\ eval_pc = "raised"
    /\ NumConsumed = 0
    /\ Len(evaluator.breakdown_attributes) = 3
    /\ dict_dict_results = DictSet(<<>>, "ALL", Leaf(<<>>))

====
